---- MODULE Spec2Model ----
(***************************************************************************)
(* Upload orchestration and scheduling engine of the bot in src/main.py:   *)
(* the per-user lock (with_user_lock), the TaskTracker registry, the       *)
(* global upload semaphore, the pipeline process_and_upload, the inactivity*)
(* timeout task, the scheduler daemon schedule_bulk_upload_task, the       *)
(* bounded-window computation of schedule_preset_cb, the admin's pause     *)
(* switch and change of max_concurrent_uploads, the back buttons and the   *)
(* shutdown of start_bot.                                                  *)
(*                                                                         *)
(* The program runs on one asyncio event loop.  Every action below is the  *)
(* code between two suspension points (await) of one coroutine.            *)
(*                                                                         *)
(* Cancellation.  Task.cancel() queues the wake-up of the cancelled task   *)
(* in the loop's FIFO ready queue before anything the caller schedules     *)
(* afterwards, so the CancelledError is thrown into the task, and the task *)
(* runs up to its next suspension point, before any task created later     *)
(* takes its first step.  cancel_deliver applies that step of the          *)
(* cancelled task as part of the action that calls cancel().               *)
(*                                                                         *)
(* db.user_states and db.schedules live in MongoDB and survive a restart;  *)
(* locks, tasks and the semaphore are created by start_bot.                *)
(*                                                                         *)
(* The variable flow is the state document of one user with every key the  *)
(* upload handlers read or write (action, platform and upload_type,        *)
(* media_file_ids, media_limit, file_info, bulk_captions), stepped by the  *)
(* handlers of the upload buttons, media messages, /done, /skip, captions, *)
(* the bulk caption and schedule buttons and upload-now.  The handlers of  *)
(* messages hold the user's lock, so each is one action, except that the   *)
(* download they end with is a step of its own; while it is pending no     *)
(* other event of that user is taken.                                      *)
(***************************************************************************)
EXTENDS Integers, Sequences, FiniteSets, TLC

\* ---------------------------------------------------------------- bounds
NumUsers == 2
NumSlots == 2
MaxTasks == 2
MaxFiles == 2
NumEntries == 2
MaxClock == 1
MaxArrivals == 4
\* bounded-window computation: items, window slots per day, ticks per slot
MaxN == 3
DaySlots == 4
SlotTicks == 4
\* value of global_settings["max_concurrent_uploads"] in the model
MaxConcurrentUploads == 1
\* largest limit the admin sends
MaxLimit == 2
\* largest global_settings['bulk_limits'] value
MaxBulkLimit == 2
\* presses of a schedule preset button
NumPresses == 2

Users == 1..NumUsers
Slots == 1..NumSlots
Tids == 1..MaxTasks
FileIds == 1..MaxFiles
Entries == 1..NumEntries

\* Schedule entries found in db.schedules at start-up: owner and run_at.
EntryOwner(e) == ((e - 1) % NumUsers) + 1
EntryRunAt(e) == ((e - 1) % MaxClock) + 1

VARIABLES
    userState,        \* db.user_states: the state document of each user
    locked,           \* user_upload_locks: the handler that holds each lock
    lockQueue,        \* handlers suspended in Lock.acquire(), per user
    handlers,         \* callbacks without with_user_lock in flight, by slot
    tasks,            \* asyncio tasks created through TaskTracker
    registry,         \* TaskTracker._user_specific_tasks
    sem,              \* upload_semaphore: _value and _waiters
    files,            \* temporary files that exist on disk
    schedules,        \* db.schedules: status of each entry
    daemon,           \* schedule_bulk_upload_task: position and fetched list
    clock,            \* datetime.utcnow(), in abstract ticks
    arrivals,         \* messages and button presses received so far
    event,            \* what the step just taken sent or ended
    sched,            \* bounded-window computation: inputs and result
    global_settings,  \* global_settings: schedules_paused, max_concurrent_uploads
    retired,          \* semaphores replaced by a reload that runs still use
    admin,            \* the admin's handle_text_input that sets the limit
    shutdown,         \* start_bot after shutdown_event: cancel_and_wait_all
    flow              \* one user's job document in full, handler by handler

\* What the users' handlers and the tasks never write.
control == <<global_settings, admin, shutdown, flow>>

vars == <<userState, locked, lockQueue, handlers, tasks, registry, sem, files,
          schedules, daemon, clock, event, sched, global_settings, retired,
          admin, shutdown, flow, arrivals>>

\* ------------------------------------------------------------ user state
\* _clear_user_state deletes the document; _get_user_state then returns {}.
\* info: the document has "file_info"; path: file_info["downloaded_path"];
\* tags: file_info["usertags"] is not empty.
Idle == [action |-> "none", info |-> FALSE, caption |-> "unset", path |-> 0,
         tags |-> FALSE]

StateEmpty(s) == s.action = "none"

\* ---------------------------------------------------------------- events
\* kind "timeout": the timeout task of the user ended by itself, oc
\* "notified" after its notice was sent and "empty" when it found no state.
\* kind "back_end": back_to_cb of the user has cleared the state and left the
\* files in "left" of the job on disk.
\* kind "run_end": a pipeline run of the user (entry 0: interactive) ended
\* with outcome oc, and left the files in "left" of its job on disk.
\* at: the position at which the task ended; quiet: no message or button
\* was being handled when the task was created and none has arrived since.
NoEvent == [kind |-> "none", user |-> 0, entry |-> 0, oc |-> "none", left |-> {},
            at |-> "none", quiet |-> FALSE]
BusyReply(u) == [NoEvent EXCEPT !.kind = "busy", !.user = u]
TimeoutNotice(u) == [NoEvent EXCEPT !.kind = "timeout", !.user = u]

\* ------------------------------------------------------------- handlers
NoLocked == [kind |-> "none", pc |-> "none", path |-> 0]
NoHandler == [kind |-> "none", user |-> 0, pc |-> "none", path |-> 0, wait |-> {}]

LockedKinds == {"start", "media", "skip"}
UnlockedKinds == {"upload_now", "cancel"}

FreeSlots == {h \in Slots : handlers[h].kind = "none"}
FirstFreeSlot == CHOOSE h \in FreeSlots : \A g \in FreeSlots : h <= g

\* DEFAULT_GLOBAL_SETTINGS as far as the engine reads it, the admin outside
\* any handler, start_bot before shutdown_event.
DefaultSettings == [schedules_paused |-> FALSE,
                    max_concurrent_uploads |-> MaxConcurrentUploads]
AdminIdle == [pc |-> "idle", limit |-> 0]
Running == [pc |-> "running", wait |-> {}]

\* --------------------------------------------------------------- tasks
\* semref: the semaphore the run entered, 0 for the one upload_semaphore is
\* bound to, otherwise an index of retired; born: arrivals at creation;
\* pubs: the calls of the upload method of the Instagram client that have
\* returned a result.
NoTask == [name |-> "none", user |-> 0, pc |-> "done", entry |-> 0,
           path |-> 0, toClean |-> {}, outcome |-> "none", claimed |-> FALSE,
           semref |-> 0, born |-> 0, pubs |-> 0]

TaskDone(ts, t) == ts[t].pc = "done"

TaskNames == {<<"upload", 0>>, <<"timeout", 0>>} \cup
             {<<"scheduled_upload", e>> : e \in Entries}
TaskKeyOf(tk) == <<tk.name, tk.entry>>

\* Positions of process_and_upload.
TryBody == {"download", "transform", "publish", "persist", "complete", "notify"}
InSection == TryBody \cup {"except", "clearing"}
HoldsPermit == InSection \cup {"granted"}

IsRun(tk) == tk.name \in {"upload", "scheduled_upload"}

\* Temporary file names not in use.
UsedFiles ==
    files \cup {userState[u].path : u \in Users}
          \cup {locked[u].path : u \in Users}
          \cup {handlers[h].path : h \in Slots}
          \cup {tasks[t].path : t \in Tids}
          \cup UNION {tasks[t].toClean : t \in Tids}
FreeFiles == FileIds \ UsedFiles
FirstFreeFile == CHOOSE f \in FreeFiles : \A g \in FreeFiles : f <= g

\* cleanup_temp_files: os.remove of every path that is set and exists.
cleanup_temp_files(fs, paths) == fs \ paths

\* ------------------------------------------------- asyncio.Semaphore
\* Semaphore.locked(): no permit left, or somebody is already queued.
\* (sem_locked_never: an acquire that never finds the semaphore locked.)
sem_locked_never(s) == FALSE
sem_locked(s) == s.value = 0 \/ s.waiters # <<>>

RemoveWaiter(q, t) == SelectSeq(q, LAMBDA x : x # t)

\* The state a step works on, so that cancellation and release can be
\* applied in the middle of an action.
World == [tasks |-> tasks, registry |-> registry, sem |-> sem, files |-> files,
          userState |-> userState, event |-> NoEvent, retired |-> retired]

\* The coroutine of task t has returned or raised into safe_task_wrapper.
Finish(w, t, oc) ==
    LET tk == w.tasks[t] IN
    [w EXCEPT !.tasks[t] = NoTask,
              !.event = IF IsRun(tk)
                        THEN [kind |-> "run_end", user |-> tk.user,
                              entry |-> tk.entry, oc |-> oc,
                              left |-> (tk.toClean \cup {tk.path}) \cap w.files,
                              at |-> tk.pc, quiet |-> FALSE]
                        ELSE IF tk.name = "timeout" /\ oc # "none"
                        THEN [TimeoutNotice(tk.user) EXCEPT
                                 !.oc = oc, !.left = {tk.path} \cap w.files,
                                 !.at = tk.pc, !.quiet = tk.born = arrivals]
                        ELSE @]

\* Semaphore.release(): _value += 1, then _wake_up_next() hands the permit
\* to the first waiter.
\* (sem_release_no_wake: a release that does not wake the first waiter.)
sem_release_no_wake(w, s) == [w |-> w, s |-> [s EXCEPT !.value = @ + 1]]
sem_release(w, s) ==
    IF s.waiters = <<>>
    THEN [w |-> w, s |-> [s EXCEPT !.value = @ + 1]]
    ELSE [w |-> [w EXCEPT !.tasks[Head(s.waiters)].pc = "granted"],
          s |-> [s EXCEPT !.waiters = Tail(@)]]

\* The semaphore object that run t entered, and its replacement by s.
sem_of(w, t) ==
    IF w.tasks[t].semref = 0 THEN w.sem ELSE w.retired[w.tasks[t].semref]
sem_put(w, t, s) ==
    IF w.tasks[t].semref = 0 THEN [w EXCEPT !.sem = s]
    ELSE [w EXCEPT !.retired[w.tasks[t].semref] = s]

\* Leaving "async with upload_semaphore" (process_and_upload).
\* (RunExit_no_release: an exit that does not call release.)
RunExit_no_release(w, t, oc) == Finish(w, t, oc)
RunExit(w, t, oc) ==
    LET r == sem_release(w, sem_of(w, t)) IN Finish(sem_put(r.w, t, r.s), t, oc)

\* The finally block of process_and_upload up to its suspension point:
\* cleanup_temp_files(files_to_clean), then for an interactive run the await
\* of _clear_user_state; a scheduled run leaves the section at once.
\* (EnterFinally_ignores_is_scheduled: a finally block without the test of
\* is_scheduled.)
EnterFinally_ignores_is_scheduled(w, t) ==
    LET tk == w.tasks[t]
        w1 == [w EXCEPT !.files = cleanup_temp_files(@, tk.toClean)] IN
    [w1 EXCEPT !.tasks[t].pc = "clearing"]
EnterFinally(w, t) ==
    LET tk == w.tasks[t]
        w1 == [w EXCEPT !.files = cleanup_temp_files(@, tk.toClean)] IN
    IF tk.name = "scheduled_upload"
    THEN RunExit(w1, t, tk.outcome)
    ELSE [w1 EXCEPT !.tasks[t].pc = "clearing"]

\* CancelledError thrown into task t at its current suspension point.
cancel_deliver(w, t) ==
    LET tk == w.tasks[t] IN
    IF tk.name = "timeout" THEN Finish(w, t, "none")
    ELSE CASE tk.pc \in {"new", "sending"} -> Finish(w, t, "unstarted")
           [] tk.pc = "waiting" ->
                Finish(sem_put(w, t, [sem_of(w, t) EXCEPT !.waiters = RemoveWaiter(@, t)]),
                       t, "unstarted")
           [] tk.pc = "granted" -> RunExit(w, t, "cancelled")
           [] tk.pc \in TryBody ->
                [w EXCEPT !.tasks[t].pc = "except",
                          !.tasks[t].outcome =
                              IF @ = "ok" THEN "ok" ELSE "cancelled"]
           [] tk.pc = "except" -> EnterFinally(w, t)
           [] tk.pc = "clearing" ->
                \* the delete_one already handed to the worker thread runs
                RunExit([w EXCEPT !.userState[tk.user] = Idle], t, tk.outcome)
           [] OTHER -> w

\* ---------------------------------------------------------- TaskTracker
NoNames == [n \in TaskNames |-> 0]

\* TaskTracker.cancel_user_task
cancel_user_task(w, u, name) ==
    IF w.registry[u][name] # 0
    THEN LET t == w.registry[u][name]
             w1 == IF ~TaskDone(w.tasks, t) THEN cancel_deliver(w, t) ELSE w IN
         [w1 EXCEPT !.registry[u][name] = 0]
    ELSE w

\* A task slot can be reused once its task is done and nothing refers to it.
FreeTidsOf(w) ==
    {t \in Tids : /\ TaskDone(w.tasks, t)
                  /\ ~\E u \in Users : \E n \in TaskNames : w.registry[u][n] = t
                  /\ ~\E h \in Slots : t \in handlers[h].wait
                  /\ t \notin shutdown.wait}
FirstFreeTid(w) == CHOOSE t \in FreeTidsOf(w) : \A g \in FreeTidsOf(w) : t <= g

\* TaskTracker.create_task(coro, user_id, task_name)
create_task(w, tk) ==
    LET c == cancel_user_task(w, tk.user, TaskKeyOf(tk))
        t == FirstFreeTid(c) IN
    [c EXCEPT !.tasks[t] = tk, !.registry[tk.user][TaskKeyOf(tk)] = t]

CanCreate(w, tk) == FreeTidsOf(cancel_user_task(w, tk.user, TaskKeyOf(tk))) # {}

NameSeq == <<<<"upload", 0>>, <<"timeout", 0>>>> \o
           [i \in 1..NumEntries |-> <<"scheduled_upload", i>>]

RECURSIVE CancelEach(_, _, _)
CancelEach(w, ts, i) ==
    IF i > Len(ts) THEN w
    ELSE CancelEach(IF TaskDone(w.tasks, ts[i]) THEN w ELSE cancel_deliver(w, ts[i]),
                    ts, i + 1)

UserTaskSeq(reg, u) ==
    LET ns == SelectSeq(NameSeq, LAMBDA n : reg[u][n] # 0) IN
    [i \in 1..Len(ns) |-> reg[u][ns[i]]]

\* TaskTracker.cancel_all_user_tasks, up to its await of gather.
cancel_all_user_tasks(w, u) ==
    LET ts == UserTaskSeq(w.registry, u)
        pending == {ts[i] : i \in {j \in 1..Len(ts) : ~TaskDone(w.tasks, ts[j])}}
        w1 == CancelEach(w, ts, 1) IN
    [w |-> [w1 EXCEPT !.registry[u] = NoNames],
     wait |-> {t \in pending : ~TaskDone(w1.tasks, t)}]

\* A registry entry whose task is done behaves as no entry: cancel_user_task
\* and cancel_all_user_tasks test task.done() before they cancel.
Prune(reg, ts) ==
    [u \in Users |-> [n \in TaskNames |->
        IF reg[u][n] # 0 /\ TaskDone(ts, reg[u][n]) THEN 0 ELSE reg[u][n]]]

Apply(w) ==
    /\ tasks' = w.tasks
    /\ registry' = Prune(w.registry, w.tasks)
    /\ sem' = w.sem
    /\ retired' = w.retired
    /\ files' = w.files
    /\ userState' = w.userState
    /\ event' = w.event

\* ------------------------------------------------------- with_user_lock
\* asyncio.Lock.locked()
\* (lock_locked_never: a wrapper that does not test the lock.)
lock_locked_never(u) == FALSE
lock_locked(u) == locked[u].kind # "none"

\* A message or button whose handler is decorated with with_user_lock.
\* When the lock is held the handler replies and returns; otherwise
\* "async with" takes the lock without suspending.
LockedArrive(u, k) ==
    /\ arrivals < MaxArrivals
    /\ arrivals' = arrivals + 1
    /\ k \in LockedKinds
    /\ IF lock_locked(u)
       THEN /\ Apply([World EXCEPT !.event = BusyReply(u)])
            /\ UNCHANGED <<locked, lockQueue>>
       ELSE /\ Apply(World)
            /\ IF locked[u].kind = "none"
               THEN /\ locked' = [locked EXCEPT ![u] = [NoLocked EXCEPT !.kind = k, !.pc = "body"]]
                    /\ UNCHANGED lockQueue
               ELSE /\ lockQueue[u] = <<>>
                    /\ lockQueue' = [lockQueue EXCEPT ![u] = Append(@, k)]
                    /\ UNCHANGED locked
    /\ UNCHANGED <<control, handlers, schedules, daemon, clock, sched>>

\* Leaving "async with user_upload_locks[user_id]": the handler returns and
\* Lock.release() wakes the first waiter, if any.
EndLocked(u) ==
    IF lockQueue[u] = <<>>
    THEN /\ locked' = [locked EXCEPT ![u] = NoLocked]
         /\ UNCHANGED lockQueue
    ELSE /\ locked' = [locked EXCEPT ![u] =
                [NoLocked EXCEPT !.kind = Head(lockQueue[u]), !.pc = "body"]]
         /\ lockQueue' = [lockQueue EXCEPT ![u] = Tail(@)]

\* A button whose callback is not decorated with with_user_lock.
UnlockedArrive(u, k) ==
    /\ arrivals < MaxArrivals
    /\ arrivals' = arrivals + 1
    /\ k \in UnlockedKinds
    /\ FreeSlots # {}
    /\ handlers' = [handlers EXCEPT ![FirstFreeSlot] =
           [NoHandler EXCEPT !.kind = k, !.user = u, !.pc = "read"]]
    /\ Apply(World)
    /\ UNCHANGED <<control, locked, lockQueue, schedules, daemon, clock, sched>>

\* ------------------------------------------- initiate_instagram_upload
initiate_instagram_upload(u) ==
    /\ locked[u].kind = "start" /\ locked[u].pc = "body"
    /\ \/ \* not premium, or no stored session: reply and return
          Apply(World)
       \/ Apply([World EXCEPT !.userState[u] =
              [Idle EXCEPT !.action = "waiting_for_instagram_reel"]])
    /\ EndLocked(u)
    /\ UNCHANGED <<control, handlers, schedules, daemon, clock, sched, arrivals>>

\* ---------------------------------------------------- handle_media_upload
\* _get_user_state, the action test and the size test.
handle_media_upload_read(u) ==
    /\ locked[u].kind = "media" /\ locked[u].pc = "body"
    /\ IF userState[u].action # "waiting_for_instagram_reel"
       THEN EndLocked(u)
       ELSE /\ locked' = [locked EXCEPT ![u].pc = "act"]
            /\ UNCHANGED lockQueue
    /\ Apply(World)
    /\ UNCHANGED <<control, handlers, schedules, daemon, clock, sched, arrivals>>

handle_media_upload_act(u) ==
    /\ locked[u].kind = "media" /\ locked[u].pc = "act"
    /\ \/ \* file larger than MAX_FILE_SIZE_BYTES
          Apply([World EXCEPT !.userState[u] = Idle])
       \/ Apply([World EXCEPT !.userState[u] =
              [Idle EXCEPT !.action = "waiting_for_caption", !.info = TRUE]])
    /\ EndLocked(u)
    /\ UNCHANGED <<control, handlers, schedules, daemon, clock, sched, arrivals>>

\* ---------------------------------------------------- handle_skip_command
handle_skip_command_read(u) ==
    /\ locked[u].kind = "skip" /\ locked[u].pc = "body"
    /\ IF userState[u].action # "waiting_for_caption"
       THEN EndLocked(u)
       ELSE /\ locked' = [locked EXCEPT ![u].pc = "save", ![u].path = userState[u].path]
            /\ UNCHANGED lockQueue
    /\ Apply(World)
    /\ UNCHANGED <<control, handlers, schedules, daemon, clock, sched, arrivals>>

handle_skip_command_save(u) ==
    /\ locked[u].kind = "skip" /\ locked[u].pc = "save"
    /\ Apply([World EXCEPT !.userState[u] =
           [action |-> "waiting_for_upload_options", info |-> TRUE,
            caption |-> "default", path |-> locked[u].path,
            tags |-> FALSE]])
    /\ locked' = [locked EXCEPT ![u].pc = "download"]
    /\ UNCHANGED <<control, lockQueue, handlers, schedules, daemon, clock, sched, arrivals>>

\* ------------------------------------ _deferred_download_and_show_options
deferred_download(u) ==
    /\ locked[u].pc = "download"
    /\ \/ /\ FreeFiles # {}
          /\ Apply([World EXCEPT !.files = @ \cup {FirstFreeFile}])
          /\ locked' = [locked EXCEPT ![u].path = FirstFreeFile, ![u].pc = "show"]
          /\ UNCHANGED lockQueue
       \/ \* app.download_media raised: except Exception
          /\ Apply([World EXCEPT !.userState[u] = Idle])
          /\ EndLocked(u)
    /\ UNCHANGED <<control, handlers, schedules, daemon, clock, sched, arrivals>>

\* path: the file fetched for the job the task watches; born: -1 when a
\* button pressed earlier is still being handled.
TimeoutTask(u) ==
    [NoTask EXCEPT !.name = "timeout", !.user = u, !.pc = "t_sleep",
                   !.path = locked[u].path,
                   !.born = IF \A h \in Slots : handlers[h].kind = "none"
                            THEN arrivals ELSE -1]

deferred_show(u) ==
    LET w0 == [World EXCEPT !.userState[u] =
                  [action |-> "waiting_for_upload_options", info |-> TRUE,
                   caption |-> "default", path |-> locked[u].path,
            tags |-> FALSE]] IN
    /\ locked[u].pc = "show"
    /\ CanCreate(w0, TimeoutTask(u))
    /\ Apply(create_task(w0, TimeoutTask(u)))
    /\ EndLocked(u)
    /\ UNCHANGED <<control, handlers, schedules, daemon, clock, sched, arrivals>>

\* ------------------------------------ tag_users_cb and the usernames sent
\* The "tag users" button of the upload options: a premium user whose state
\* has file_info is asked for the usernames.  The callback is not decorated
\* with with_user_lock.
tag_users_cb(u) ==
    /\ userState[u].info
    /\ userState[u].action # "waiting_for_usertags_insta"
    /\ Apply([World EXCEPT !.userState[u].action = "waiting_for_usertags_insta"])
    /\ UNCHANGED <<control, locked, lockQueue, handlers, schedules, daemon, clock, sched,
                   arrivals>>

\* handle_text_input, action waiting_for_usertags_insta: the usernames are
\* stored in file_info and the job is back at the upload options.  The
\* handler holds the user's lock from entry to return.
handle_text_input_usertags(u) ==
    /\ ~lock_locked(u)
    /\ userState[u].action = "waiting_for_usertags_insta"
    /\ Apply([World EXCEPT !.userState[u].action = "waiting_for_upload_options",
                           !.userState[u].tags = TRUE])
    /\ UNCHANGED <<control, locked, lockQueue, handlers, schedules, daemon, clock, sched,
                   arrivals>>

\* ----------------------------------------------------------- upload_now_cb
upload_now_cb_read(h) ==
    LET u == handlers[h].user IN
    /\ handlers[h].kind = "upload_now" /\ handlers[h].pc = "read"
    /\ handlers' = IF ~userState[u].info
                   THEN [handlers EXCEPT ![h] = NoHandler]
                   ELSE [handlers EXCEPT ![h].path = userState[u].path,
                                         ![h].pc = "dispatch"]
    /\ Apply(World)
    /\ UNCHANGED <<control, locked, lockQueue, schedules, daemon, clock, sched, arrivals>>

\* start_upload_task
UploadTask(u, path) ==
    [NoTask EXCEPT !.name = "upload", !.user = u, !.pc = "new", !.path = path]

upload_now_cb_dispatch(h) ==
    LET u == handlers[h].user
        w0 == [World EXCEPT !.userState[u] = Idle]
        tk == UploadTask(u, handlers[h].path) IN
    /\ handlers[h].kind = "upload_now" /\ handlers[h].pc = "dispatch"
    /\ CanCreate(w0, tk)
    /\ Apply(create_task(w0, tk))
    /\ handlers' = [handlers EXCEPT ![h] = NoHandler]
    /\ UNCHANGED <<control, locked, lockQueue, schedules, daemon, clock, sched, arrivals>>

\* -------------------------------------------------------- cancel_upload_cb
cancel_upload_cb_read(h) ==
    LET u == handlers[h].user IN
    /\ handlers[h].kind = "cancel" /\ handlers[h].pc = "read"
    /\ Apply([World EXCEPT !.files = cleanup_temp_files(@, {userState[u].path})])
    /\ handlers' = [handlers EXCEPT ![h].pc = "clear"]
    /\ UNCHANGED <<control, locked, lockQueue, schedules, daemon, clock, sched, arrivals>>

cancel_upload_cb_clear(h) ==
    LET u == handlers[h].user
        c == cancel_all_user_tasks([World EXCEPT !.userState[u] = Idle], u) IN
    /\ handlers[h].kind = "cancel" /\ handlers[h].pc = "clear"
    /\ Apply(c.w)
    /\ handlers' = IF c.wait = {}
                   THEN [handlers EXCEPT ![h] = NoHandler]
                   ELSE [handlers EXCEPT ![h].pc = "gather", ![h].wait = c.wait]
    /\ UNCHANGED <<control, locked, lockQueue, schedules, daemon, clock, sched, arrivals>>

\* asyncio.gather of the cancelled tasks returns once all of them are done.
cancel_upload_cb_gather(h) ==
    /\ handlers[h].kind = "cancel" /\ handlers[h].pc = "gather"
    /\ \A t \in handlers[h].wait : TaskDone(tasks, t)
    /\ handlers' = [handlers EXCEPT ![h] = NoHandler]
    /\ Apply(World)
    /\ UNCHANGED <<control, locked, lockQueue, schedules, daemon, clock, sched, arrivals>>

\* ---------------------------------------------------------------- back_to_cb
\* A "back" button is pressed; the handler runs outside the user lock.  path
\* keeps the file that is fetched for the user's job at that moment.
back_to_cb_arrive(u) ==
    /\ arrivals < MaxArrivals
    /\ arrivals' = arrivals + 1
    /\ FreeSlots # {}
    /\ handlers' = [handlers EXCEPT ![FirstFreeSlot] =
           [NoHandler EXCEPT !.kind = "back", !.user = u, !.pc = "cancel",
                             !.path = userState[u].path]]
    /\ Apply(World)
    /\ UNCHANGED <<control, locked, lockQueue, schedules, daemon, clock, sched>>

\* _save_user_data(last_active), then cancel_all_user_tasks up to its gather.
back_to_cb_cancel(h) ==
    LET c == cancel_all_user_tasks(World, handlers[h].user) IN
    /\ handlers[h].kind = "back" /\ handlers[h].pc = "cancel"
    /\ Apply(c.w)
    /\ handlers' = [handlers EXCEPT ![h].pc = "clear", ![h].wait = c.wait]
    /\ UNCHANGED <<control, locked, lockQueue, schedules, daemon, clock, sched, arrivals>>

\* gather has returned; _clear_user_state, then the menu is shown.  No file
\* is removed anywhere in the handler.
back_to_cb_clear(h) ==
    LET u == handlers[h].user IN
    /\ handlers[h].kind = "back" /\ handlers[h].pc = "clear"
    /\ \A t \in handlers[h].wait : TaskDone(tasks, t)
    /\ Apply([World EXCEPT !.userState[u] = Idle,
                           !.event = [NoEvent EXCEPT !.kind = "back_end", !.user = u,
                                         !.left = {handlers[h].path} \cap files]])
    /\ handlers' = [handlers EXCEPT ![h] = NoHandler]
    /\ UNCHANGED <<control, locked, lockQueue, schedules, daemon, clock, sched, arrivals>>

\* ----------------------------------------- confirm_delete_all_schedules_cb
confirm_delete_all_schedules_cb(u) ==
    /\ \E e \in Entries : EntryOwner(e) = u /\ schedules[e] # "deleted"
    /\ schedules' = [e \in Entries |->
           IF EntryOwner(e) = u THEN "deleted" ELSE schedules[e]]
    /\ Apply(World)
    /\ UNCHANGED <<control, locked, lockQueue, handlers, daemon, clock, sched, arrivals>>

\* ------------------------------------------------------------ timeout_task
\* asyncio.sleep(TIMEOUT_SECONDS) has elapsed and _get_user_state has
\* answered: nothing to do for an empty state, otherwise the pre-fetched
\* file is removed.
timeout_task_read(t) ==
    LET tk == tasks[t]
        s == userState[tk.user] IN
    /\ tk.name = "timeout" /\ tk.pc = "t_sleep"
    /\ IF StateEmpty(s)
       THEN Apply(Finish(World, t, "empty"))
       ELSE Apply([World EXCEPT !.tasks[t].pc = "t_clear",
                                !.files = cleanup_temp_files(@, {s.path})])
    /\ UNCHANGED <<control, locked, lockQueue, handlers, schedules, daemon, clock, sched, arrivals>>

timeout_task_clear(t) ==
    /\ tasks[t].name = "timeout" /\ tasks[t].pc = "t_clear"
    /\ Apply([World EXCEPT !.userState[tasks[t].user] = Idle,
                           !.tasks[t].pc = "t_notify"])
    /\ UNCHANGED <<control, locked, lockQueue, handlers, schedules, daemon, clock, sched, arrivals>>

timeout_task_notify(t) ==
    /\ tasks[t].name = "timeout" /\ tasks[t].pc = "t_notify"
    /\ Apply(Finish(World, t, "notified"))
    /\ UNCHANGED <<control, locked, lockQueue, handlers, schedules, daemon, clock, sched, arrivals>>

\* ------------------------------------------------------ process_and_upload
\* task_tracker.cancel_user_task(user_id, "timeout"), then entering
\* "async with upload_semaphore": Semaphore.acquire() takes a permit without
\* suspending when the semaphore is not locked, and queues otherwise.
EnterSection(w, t) ==
    LET c == cancel_user_task(w, w.tasks[t].user, <<"timeout", 0>>) IN
    IF ~sem_locked(c.sem)
    THEN [c EXCEPT !.sem.value = @ - 1, !.tasks[t].pc = "download"]
    ELSE [c EXCEPT !.sem.waiters = Append(@, t), !.tasks[t].pc = "waiting"]

\* First step of the task.  A scheduled run (msg is None) first awaits
\* app.send_message.
RunBegin(t) ==
    /\ IsRun(tasks[t]) /\ tasks[t].pc = "new"
    /\ IF tasks[t].name = "scheduled_upload"
       THEN Apply([World EXCEPT !.tasks[t].pc = "sending"])
       ELSE Apply(EnterSection(World, t))
    /\ UNCHANGED <<control, locked, lockQueue, handlers, schedules, daemon, clock, sched, arrivals>>

\* update_one on an entry that delete_many has removed matches nothing.
SetStatus(sch, e, st) == IF sch[e] = "deleted" THEN sch ELSE [sch EXCEPT ![e] = st]

RunSend(t) ==
    /\ tasks[t].pc = "sending"
    /\ \/ /\ Apply(EnterSection(World, t))
          /\ UNCHANGED schedules
       \/ \* send_message raised: the entry is marked failed and the run returns
          /\ schedules' = SetStatus(schedules, tasks[t].entry, "failed")
          /\ Apply(Finish(World, t, "fault"))
    /\ UNCHANGED <<control, locked, lockQueue, handlers, daemon, clock, sched, arrivals>>

\* The waiter that release() handed the permit to resumes inside the section.
RunResume(t) ==
    /\ tasks[t].pc = "granted"
    /\ Apply([World EXCEPT !.tasks[t].pc = "download"])
    /\ UNCHANGED <<control, locked, lockQueue, handlers, schedules, daemon, clock, sched, arrivals>>

\* Settings, premium check, session load and login_by_sessionid, then
\* app.download_media(file_id); the path goes to files_to_clean.
RunDownload(t) ==
    /\ tasks[t].pc = "download"
    /\ FreeFiles # {}
    /\ Apply([World EXCEPT !.files = @ \cup {FirstFreeFile},
                           !.tasks[t].toClean = @ \cup {FirstFreeFile},
                           !.tasks[t].pc = "transform"])
    /\ UNCHANGED <<control, locked, lockQueue, handlers, schedules, daemon, clock, sched, arrivals>>

\* needs_conversion / fix_for_instagram / apply_watermark: either the file
\* is used as it is, or a new file is written and added to files_to_clean.
RunTransform(t) ==
    /\ tasks[t].pc = "transform"
    /\ \/ Apply([World EXCEPT !.tasks[t].pc = "publish"])
       \/ /\ FreeFiles # {}
          /\ Apply([World EXCEPT !.files = @ \cup {FirstFreeFile},
                                 !.tasks[t].toClean = @ \cup {FirstFreeFile},
                                 !.tasks[t].pc = "publish"])
    /\ UNCHANGED <<control, locked, lockQueue, handlers, schedules, daemon, clock, sched, arrivals>>

\* clip_upload / photo_upload / album_upload returned.
\* (RunPublish_again: the upload method is called again after it returned.)
RunPublish_again(t) ==
    /\ tasks[t].pc \in {"publish", "persist"}
    /\ tasks[t].pubs < 2
    /\ Apply([World EXCEPT !.tasks[t].pc = "persist", !.tasks[t].pubs = @ + 1])
    /\ UNCHANGED <<control, locked, lockQueue, handlers, schedules, daemon, clock, sched, arrivals>>
RunPublish(t) ==
    /\ tasks[t].pc = "publish"
    /\ Apply([World EXCEPT !.tasks[t].pc = "persist", !.tasks[t].pubs = @ + 1])
    /\ UNCHANGED <<control, locked, lockQueue, handlers, schedules, daemon, clock, sched, arrivals>>

\* media_comment with the first comment, then db.uploads.insert_one
RunPersist(t) ==
    /\ tasks[t].pc = "persist"
    /\ Apply([World EXCEPT !.tasks[t].outcome = "ok",
           !.tasks[t].pc = IF tasks[t].name = "scheduled_upload"
                           THEN "complete" ELSE "notify"])
    /\ UNCHANGED <<control, locked, lockQueue, handlers, schedules, daemon, clock, sched, arrivals>>

\* db.schedules.update_one({"_id": schedule_id}, status = "completed")
RunComplete(t) ==
    /\ tasks[t].pc = "complete"
    /\ schedules' = SetStatus(schedules, tasks[t].entry, "completed")
    /\ Apply([World EXCEPT !.tasks[t].pc = "notify"])
    /\ UNCHANGED <<control, locked, lockQueue, handlers, daemon, clock, sched, arrivals>>

\* The success message and the log line are sent; the finally block follows.
RunNotify(t) ==
    /\ tasks[t].pc = "notify"
    /\ Apply(EnterFinally(World, t))
    /\ UNCHANGED <<control, locked, lockQueue, handlers, schedules, daemon, clock, sched, arrivals>>

\* Any step of the try body raises (LoginRequired, MediaUploadError,
\* ClientError, any other Exception): the matching except clause starts to
\* send its error message.
RunFault(t) ==
    /\ tasks[t].pc \in TryBody \ {"notify"}
    /\ Apply([World EXCEPT !.tasks[t].pc = "except",
                           !.tasks[t].outcome = IF @ = "ok" THEN "ok" ELSE "fault"])
    /\ UNCHANGED <<control, locked, lockQueue, handlers, schedules, daemon, clock, sched, arrivals>>

\* No active_ig_username, no stored session, or login_by_sessionid raised:
\* LoginRequired is raised before any download, and its except clause starts
\* to send the "Login Required" message.
RunLoginRequired(t) ==
    /\ tasks[t].pc = "download"
    /\ Apply([World EXCEPT !.tasks[t].pc = "except", !.tasks[t].outcome = "auth"])
    /\ UNCHANGED <<control, locked, lockQueue, handlers, schedules, daemon, clock, sched, arrivals>>

\* The except clause has sent its message; the finally block follows.
RunExcept(t) ==
    /\ tasks[t].pc = "except"
    /\ Apply(EnterFinally(World, t))
    /\ UNCHANGED <<control, locked, lockQueue, handlers, schedules, daemon, clock, sched, arrivals>>

\* _clear_user_state(user_id) of the finally block has returned; the run
\* leaves the section.
RunClear(t) ==
    /\ tasks[t].pc = "clearing"
    /\ Apply(RunExit([World EXCEPT !.userState[tasks[t].user] = Idle], t,
                     tasks[t].outcome))
    /\ UNCHANGED <<control, locked, lockQueue, handlers, schedules, daemon, clock, sched, arrivals>>

\* delete_one of _clear_user_state raised (the database is unreachable):
\* the finally block has no handler, the exception leaves
\* "async with upload_semaphore" and process_and_upload, and
\* safe_task_wrapper logs it.
RunClearFault(t) ==
    /\ tasks[t].pc = "clearing"
    /\ Apply(RunExit(World, t, "escaped"))
    /\ UNCHANGED <<control, locked, lockQueue, handlers, schedules, daemon, clock, sched, arrivals>>

\* ------------------------------------------------ schedule_bulk_upload_task
RECURSIVE SetToSeq(_)
SetToSeq(S) ==
    IF S = {} THEN <<>>
    ELSE LET m == CHOOSE x \in S : \A y \in S : x <= y IN <<m>> \o SetToSeq(S \ {m})

\* db.schedules.find({"run_at": {"$lte": now_utc}, "status": "pending"})
\* (find_due_any_status: a query without the status filter.)
find_due_any_status(sch, now) == {e \in Entries : EntryRunAt(e) <= now}
find_due(sch, now) == {e \in Entries : sch[e] = "pending" /\ EntryRunAt(e) <= now}

DaemonIdle == [pc |-> "sleep", list |-> <<>>]

\* A cycle that finds schedules_paused unset: the find has returned its list.
\* With the flag set the cycle does nothing and the daemon sleeps on.
\* (DaemonPoll_ignores_pause: a cycle that does not test the flag.)
DaemonPoll_ignores_pause ==
    /\ daemon.pc = "sleep"
    /\ find_due(schedules, clock) # {}
    /\ daemon' = [pc |-> "loop", list |-> SetToSeq(find_due(schedules, clock))]
    /\ Apply(World)
    /\ UNCHANGED <<control, locked, lockQueue, handlers, schedules, clock, sched, arrivals>>
DaemonPoll ==
    /\ daemon.pc = "sleep"
    /\ ~global_settings.schedules_paused
    /\ find_due(schedules, clock) # {}
    /\ daemon' = [pc |-> "loop", list |-> SetToSeq(find_due(schedules, clock))]
    /\ Apply(World)
    /\ UNCHANGED <<control, locked, lockQueue, handlers, schedules, clock, sched, arrivals>>

\* The admin presses the pause button: global_settings is written before
\* the first await of _update_global_setting.
toggle_schedules_paused_cb ==
    /\ arrivals < MaxArrivals
    /\ arrivals' = arrivals + 1
    /\ global_settings' = [global_settings EXCEPT !.schedules_paused = ~@]
    /\ Apply(World)
    /\ UNCHANGED <<admin, shutdown, flow, locked, lockQueue, handlers, schedules, daemon,
                   clock, sched>>

\* claimed: the entry was pending when the update reached it.
ScheduledTask(e, claimed) ==
    [NoTask EXCEPT !.name = "scheduled_upload", !.user = EntryOwner(e),
                   !.pc = "new", !.entry = e, !.claimed = claimed]

\* update_one({"_id": schedule["_id"]}, status = "processing"), then
\* task_tracker.create_task(process_and_upload(..., is_scheduled=True)).
DaemonClaim ==
    LET e == Head(daemon.list)
        tk == ScheduledTask(e, schedules[e] = "pending") IN
    /\ daemon.pc = "loop"
    /\ CanCreate(World, tk)
    /\ schedules' = SetStatus(schedules, e, "processing")
    /\ Apply(create_task(World, tk))
    /\ daemon' = IF Tail(daemon.list) = <<>> THEN DaemonIdle
                 ELSE [daemon EXCEPT !.list = Tail(@)]
    /\ UNCHANGED <<control, locked, lockQueue, handlers, clock, sched, arrivals>>

\* A database call of the loop raised: the error is logged and the daemon
\* sleeps until the next cycle.
DaemonFault ==
    /\ daemon.pc = "loop"
    /\ daemon' = DaemonIdle
    /\ Apply(World)
    /\ UNCHANGED <<control, locked, lockQueue, handlers, schedules, clock, sched, arrivals>>

Tick ==
    /\ clock < MaxClock
    /\ clock' = clock + 1
    /\ Apply(World)
    /\ UNCHANGED <<control, locked, lockQueue, handlers, schedules, daemon, sched, arrivals>>

\* ---------------------------------------- start_bot after shutdown_event
\* The daemon task has ended: its coroutine returned, or the CancelledError
\* left it.  The daemon is created without safe_task_wrapper, and its own
\* "except Exception" and "except asyncio.TimeoutError" do not catch a
\* CancelledError.
DaemonDone == [pc |-> "done", list |-> <<>>]
DaemonCancelled == [pc |-> "cancelled", list |-> <<>>]
DaemonEnded == daemon.pc \in {"done", "cancelled"}

\* Task.cancel() on the daemon.  In its for loop the daemon awaits
\* asyncio.to_thread and the CancelledError is raised there.  In wait_for the
\* event is already set: wait_for either returns (its inner future is done)
\* and the while loop ends, or raises the CancelledError, as the interpreter
\* version has it.
cancel_bulk_scheduler ==
    IF daemon.pc = "sleep" THEN {DaemonDone, DaemonCancelled} ELSE {DaemonCancelled}

\* TaskTracker.cancel_and_wait_all up to its await of gather: every task of
\* _tasks that is not done is cancelled, in the order of the task slots.
cancel_and_wait_all(w) ==
    LET ts == SetToSeq({t \in Tids : ~TaskDone(w.tasks, t)})
        w1 == CancelEach(w, ts, 1) IN
    [w |-> w1, wait |-> {t \in Tids : ~TaskDone(w.tasks, t) /\ ~TaskDone(w1.tasks, t)}]

\* shutdown_event is set and start_bot resumes.  The daemon is one of the
\* tracked tasks; the update_one it may be awaiting runs in a worker thread
\* and is either applied or not.
shutdown_begin ==
    LET c == cancel_and_wait_all(World) IN
    /\ shutdown.pc = "running"
    /\ Apply(c.w)
    /\ daemon' \in cancel_bulk_scheduler
    /\ \/ UNCHANGED schedules
       \/ /\ daemon.pc = "loop"
          /\ schedules[Head(daemon.list)] = "pending"
          /\ schedules' = SetStatus(schedules, Head(daemon.list), "processing")
    /\ shutdown' = IF c.wait = {} THEN [pc |-> "stopped", wait |-> {}]
                   ELSE [pc |-> "draining", wait |-> c.wait]
    /\ UNCHANGED <<global_settings, admin, flow, locked, lockQueue, handlers, clock, sched,
                   arrivals>>

\* gather returns once every task of the snapshot is done; app.stop() and
\* the end of run_until_complete follow.
shutdown_return ==
    /\ shutdown.pc = "draining"
    /\ \A t \in shutdown.wait : TaskDone(tasks, t)
    /\ shutdown' = [pc |-> "stopped", wait |-> {}]
    /\ Apply(World)
    /\ UNCHANGED <<global_settings, admin, flow, locked, lockQueue, handlers, schedules,
                   daemon, clock, sched, arrivals>>

\* ------------------------------- handle_text_input, waiting_for_max_uploads
\* The admin sends a positive number: _update_global_setting writes the
\* settings dictionary and awaits the database write.
max_uploads_save ==
    /\ admin.pc = "idle"
    /\ arrivals < MaxArrivals
    /\ arrivals' = arrivals + 1
    /\ \E new_limit \in 1..MaxLimit :
         /\ global_settings' = [global_settings EXCEPT !.max_concurrent_uploads = new_limit]
         /\ admin' = [pc |-> "saved", limit |-> new_limit]
    /\ Apply(World)
    /\ UNCHANGED <<shutdown, flow, locked, lockQueue, handlers, schedules, daemon, clock, sched>>

\* The runs that wait at or hold a permit of the semaphore object that
\* upload_semaphore names.
UsersOfSem(w) ==
    {t \in Tids : /\ IsRun(w.tasks[t])
                  /\ w.tasks[t].semref = 0
                  /\ w.tasks[t].pc \in HoldsPermit \cup {"waiting"}}

\* upload_semaphore = asyncio.Semaphore(new_limit): the name is bound to a
\* new object; the runs inside 'async with' of the old object keep it.
rebind_upload_semaphore(w, new_limit) ==
    LET us == UsersOfSem(w)
        fresh == [value |-> new_limit, waiters |-> <<>>] IN
    IF us = {} THEN [w EXCEPT !.sem = fresh]
    ELSE [w EXCEPT !.retired = Append(@, w.sem),
                   !.sem = fresh,
                   !.tasks = [t \in Tids |->
                                 IF t \in us
                                 THEN [w.tasks[t] EXCEPT !.semref = Len(w.retired) + 1]
                                 ELSE w.tasks[t]]]

max_uploads_rebind ==
    /\ admin.pc = "saved"
    /\ Apply(rebind_upload_semaphore(World, admin.limit))
    /\ admin' = AdminIdle
    /\ UNCHANGED <<global_settings, shutdown, flow, locked, lockQueue, handlers, schedules,
                   daemon, clock, sched, arrivals>>

\* --------------------------------- schedule_preset_cb, bounded window
\* Times are integer ticks of local (IST) time, the analogue of the
\* microseconds of a datetime; a day has DayLen ticks and a window is
\* configured in whole slots, the analogue of HH:MM.
DayLen == DaySlots * SlotTicks

\* get_current_ist_time: Asia/Kolkata is a fixed offset ahead of UTC.
IstOffset == SlotTicks + SlotTicks \div 2

\* datetime.astimezone(pytz.utc).replace(tzinfo=None)
astimezone_utc(t) == t - IstOffset

\* timedelta(minutes=x) rounds x to whole microseconds, half to even;
\* a and b are positive.
\* (RoundDiv_floor: the quotient is truncated.)
RoundDiv_floor(a, b) == a \div b
RoundDiv(a, b) ==
    LET q == a \div b
        r == a % b IN
    IF 2 * r < b THEN q
    ELSE IF 2 * r > b THEN q + 1
    ELSE IF q % 2 = 0 THEN q ELSE q + 1

\* (t + timedelta(days=1)).replace(hour=start_hour, minute=start_minute,
\* second=0, microsecond=0)
\* (next_day_start_same_time: the day is added but the time is not reset.)
next_day_start_same_time(t, start) == t + DayLen
next_day_start(t, start) == ((t + DayLen) \div DayLen) * DayLen + (start % DayLen)

\* The for loop: i items are placed already, cur is current_schedule_time.
RECURSIVE place_items(_, _, _, _, _, _)
place_items(i, n, cur, start, end, interval) ==
    IF i = n THEN <<>>
    ELSE LET c == IF cur > end THEN next_day_start(cur, start) ELSE cur IN
         <<astimezone_utc(c)>> \o place_items(i + 1, n, c + interval, start, end, interval)

\* Today is day 1; start and end are today's window bounds, now is now_ist.
\* (window_schedule_span_from_now: the spacing is computed after the start
\* has been advanced to the current time.)
window_schedule_span_from_now(n, start, end, now) ==
    LET first == IF now > start THEN now ELSE start
        interval == RoundDiv(end - first, n) IN
    place_items(0, n, first, start, end, interval)
window_schedule(n, start, end, now) ==
    LET total == end - start
        interval == RoundDiv(total, n)
        first == IF now > start THEN now ELSE start IN
    place_items(0, n, first, start, end, interval)

\* out: the run_at of the documents that save_bulk_schedules has inserted.
NoSched == [n |-> 0, start |-> 0, end |-> 0, now |-> 0, out |-> <<>>, pc |-> "off"]

\* The user who presses the preset, and the state document that
\* handle_text_input saved once the captions were given.
SchedUser == 1
AtScheduleOptions == [action |-> "waiting_for_schedule_options", info |-> FALSE,
                      caption |-> "default", path |-> 0, tags |-> FALSE]

\* The window branch of schedule_preset_cb. Without media files, or with
\* total_minutes <= 0, the callback is answered with an alert and returns;
\* otherwise save_bulk_schedules inserts one pending document per post and
\* the user's state is cleared.
\* (schedule_preset_cb_reject_after_now: the window is also refused when its
\* end is not after the current time.)
schedule_preset_cb_reject_after_now ==
    /\ sched.pc = "input"
    /\ IF sched.n = 0
       THEN sched' = [sched EXCEPT !.pc = "empty"] /\ UNCHANGED userState
       ELSE IF sched.end - sched.start <= 0 \/ sched.end <= sched.now
       THEN sched' = [sched EXCEPT !.pc = "rejected"] /\ UNCHANGED userState
       ELSE /\ sched' = [sched EXCEPT !.pc = "done",
                            !.out = window_schedule(sched.n, sched.start, sched.end, sched.now)]
            /\ userState' = [userState EXCEPT ![SchedUser] = Idle]
    /\ UNCHANGED <<control, retired, locked, lockQueue, handlers, tasks, registry, sem,
                   files, schedules, daemon, clock, event, arrivals>>
schedule_preset_cb ==
    /\ sched.pc = "input"
    /\ IF sched.n = 0
       THEN sched' = [sched EXCEPT !.pc = "empty"] /\ UNCHANGED userState
       ELSE IF sched.end - sched.start <= 0
       THEN sched' = [sched EXCEPT !.pc = "rejected"] /\ UNCHANGED userState
       ELSE /\ sched' = [sched EXCEPT !.pc = "done",
                            !.out = window_schedule(sched.n, sched.start, sched.end, sched.now)]
            /\ userState' = [userState EXCEPT ![SchedUser] = Idle]
    /\ UNCHANGED <<control, retired, locked, lockQueue, handlers, tasks, registry, sem,
                   files, schedules, daemon, clock, event, arrivals>>

\* ----------------------- schedule_preset_cb, fixed interval and once daily
\* One tick stands for one hour in these branches, timedelta(hours=1).
IntervalPresets == {"1_hour", "3_hours", "6_hours", "12_hours"}
PresetHours(key) ==
    CASE key = "1_hour" -> 1
      [] key = "3_hours" -> 3
      [] key = "6_hours" -> 6
      [] key = "12_hours" -> 12

\* run_at = now_utc + timedelta(hours=i*H) for i in range(media_count)
\* (interval_schedule_from_one: the first post is placed one interval late.)
interval_schedule_from_one(n, now_utc, h) == [i \in 1..n |-> now_utc + i * h]
interval_schedule(n, now_utc, h) == [i \in 1..n |-> now_utc + (i - 1) * h]

\* get_current_ist_time().replace(hour=9, minute=0, second=0, microsecond=0)
NineLocal == 9
once_daily_schedule(n, now_utc) ==
    LET now_ist == now_utc + IstOffset
        run_time == (now_ist \div DayLen) * DayLen + NineLocal IN
    [i \in 1..n |-> astimezone_utc(run_time) + (i - 1) * DayLen]

\* The five branches that need no configured window; sched.now is now_utc.
schedule_preset_cb_policy ==
    /\ sched.pc = "input"
    /\ IF sched.n = 0
       THEN sched' = [sched EXCEPT !.pc = "empty"] /\ UNCHANGED userState
       ELSE /\ sched' = [sched EXCEPT !.pc = "done",
                            !.out = IF sched.preset \in IntervalPresets
                                    THEN interval_schedule(sched.n, sched.now,
                                                           PresetHours(sched.preset))
                                    ELSE once_daily_schedule(sched.n, sched.now)]
            /\ userState' = [userState EXCEPT ![SchedUser] = Idle]
    /\ UNCHANGED <<control, retired, locked, lockQueue, handlers, tasks, registry, sem,
                   files, schedules, daemon, clock, event, arrivals>>

\* ------------------------------------------- the job document, in full
\* The handlers below are those of one user, with the whole state document:
\* a message handler holds the user's lock from entry to return and is one
\* step, except that the media download of
\* _deferred_download_and_show_options is a step of its own (pc "download").
\*
\* A caption is a text; NoneCaption is Python's None.
NoneCaption == "None"
CaptionLimit == 280
Texts == {"c280", "c281", "a----b", "----"}
len(c) == CASE c = "" -> 0
            [] c \in {"a", "b"} -> 1
            [] c = "c280" -> CaptionLimit
            [] c = "c281" -> CaptionLimit + 1
            [] c = "a----b" -> 6
            [] c = "----" -> 4
            [] c = "dflt" -> 4
\* [c.strip() for c in msg.text.split("----")]
split(text) == CASE text = "a----b" -> <<"a", "b">>
                 [] text = "----" -> <<"", "">>
                 [] OTHER -> <<text>>
\* file_info: file_id is the key "file_id", ids is len(media_file_ids) or -1
\* without the key, caption is .get("custom_caption"), path is the key
\* "downloaded_path".
NoInfo == [upload_type |-> "none", file_id |-> FALSE, ids |-> -1,
           caption |-> NoneCaption, path |-> FALSE]

\* The state document: typed is the presence of "platform" and
\* "upload_type", ids is len(media_file_ids) or -1 without the key, limit is
\* media_limit, info is the presence of "file_info", bulk is bulk_captions
\* when hasbulk.
EmptyDoc == [action |-> "none", typed |-> FALSE, upload_type |-> "none", ids |-> -1,
             limit |-> 0, info |-> FALSE, fi |-> NoInfo, hasbulk |-> FALSE,
             bulk |-> <<>>]

\* What the last handler did besides writing the document: its reply
\* ("none", "ok", or "error" for a refusal shown to the user), whether it
\* ended by an exception, the pipeline run it started and the schedule
\* entries it inserted; was is the action it found, premium is what
\* is_premium_for_platform returned and text the message it was given.
\* presses are the calls of schedule_preset_cb in progress, taken apart at
\* their awaits, and entries what they have inserted into db.schedules.
NoRun == [started |-> FALSE, from |-> "none", custom |-> NoneCaption, final |-> ""]
FlowIdle == [doc |-> EmptyDoc, pc |-> "idle", last |-> "none", reply |-> "none",
             raised |-> FALSE, run |-> NoRun, saved |-> <<>>, premium |-> FALSE,
             text |-> "", was |-> "none", presses |-> <<>>, entries |-> <<>>]

\* The outcome of a handler: document d, reply r.
Handled(name, d, r) ==
    [FlowIdle EXCEPT !.doc = d, !.last = name, !.reply = r, !.was = flow.doc.action]

FlowStep(f) ==
    /\ flow' = f
    /\ UNCHANGED <<userState, locked, lockQueue, handlers, tasks, registry, sem, files,
                   schedules, daemon, clock, event, sched, global_settings, retired,
                   admin, shutdown, arrivals>>

Kinds == {"reel", "post", "story", "album"}
MediaActions == {"waiting_for_instagram_reel", "waiting_for_instagram_post",
                 "waiting_for_instagram_story", "waiting_for_album_media",
                 "waiting_for_bulk_media"}
SingleAction(k) == CASE k = "reel" -> "waiting_for_instagram_reel"
                     [] k = "post" -> "waiting_for_instagram_post"
                     [] k = "story" -> "waiting_for_instagram_story"

\* initiate_instagram_upload: one of the four upload buttons.
initiate_instagram_upload_type(k) ==
    /\ flow.pc = "idle"
    /\ \E premium \in BOOLEAN : \E sessions \in BOOLEAN :
         FlowStep(
           IF ~premium \/ ~sessions
           THEN Handled("initiate", flow.doc, "error")
           ELSE IF k = "album"
           THEN Handled("initiate",
                        [EmptyDoc EXCEPT !.action = "waiting_for_album_media",
                                         !.typed = TRUE, !.upload_type = "album",
                                         !.ids = 0], "ok")
           ELSE Handled("initiate",
                        [EmptyDoc EXCEPT !.action = SingleAction(k), !.typed = TRUE,
                                         !.upload_type = k], "ok"))

\* initiate_bulk_upload_menu; limit is global_settings['bulk_limits'] of the
\* user's plan.
initiate_bulk_upload_menu ==
    /\ flow.pc = "idle"
    /\ \E premium \in BOOLEAN : \E limit \in 0..MaxBulkLimit :
         FlowStep(
           IF ~premium
           THEN Handled("initiate_bulk", flow.doc, "error")
           ELSE Handled("initiate_bulk",
                        [EmptyDoc EXCEPT !.action = "waiting_for_bulk_media",
                                         !.typed = TRUE, !.upload_type = "bulk_reel",
                                         !.ids = 0, !.limit = limit], "ok"))

\* Max 10 items in an album.
AlbumCap == 10

\* handle_media_upload for a user who is not the admin; m is what the
\* message carries, big is file_size > MAX_FILE_SIZE_BYTES.
\* (handle_media_upload_over_cap: the tests of the two caps use > .)
handle_media_upload_over_cap(m, big) ==
    LET d == flow.doc
        file_info == [NoInfo EXCEPT !.upload_type = d.upload_type, !.file_id = TRUE] IN
    /\ flow.pc = "idle"
    /\ FlowStep(
         IF d.action \notin MediaActions THEN Handled("media", d, "error")
         ELSE IF m = "other" THEN Handled("media", d, "error")
         ELSE IF big THEN Handled("media", EmptyDoc, "error")
         ELSE IF d.action = "waiting_for_bulk_media"
         THEN IF d.ids > d.limit \/ m # "video" THEN Handled("media", d, "error")
              ELSE Handled("media", [d EXCEPT !.ids = @ + 1], "ok")
         ELSE IF d.action = "waiting_for_album_media"
         THEN IF d.ids > AlbumCap THEN Handled("media", d, "error")
              ELSE Handled("media", [d EXCEPT !.ids = @ + 1], "ok")
         ELSE IF d.upload_type = "story"
         THEN [Handled("media", [EmptyDoc EXCEPT !.action = "finalizing_upload",
                                                 !.info = TRUE, !.fi = file_info], "none")
                  EXCEPT !.pc = "download"]
         ELSE Handled("media", [EmptyDoc EXCEPT !.action = "waiting_for_caption",
                                                !.info = TRUE, !.fi = file_info], "ok"))
handle_media_upload(m, big) ==
    LET d == flow.doc
        file_info == [NoInfo EXCEPT !.upload_type = d.upload_type, !.file_id = TRUE] IN
    /\ flow.pc = "idle"
    /\ FlowStep(
         IF d.action \notin MediaActions THEN Handled("media", d, "error")
         ELSE IF m = "other" THEN Handled("media", d, "error")
         ELSE IF big THEN Handled("media", EmptyDoc, "error")
         ELSE IF d.action = "waiting_for_bulk_media"
         THEN IF d.ids >= d.limit \/ m # "video" THEN Handled("media", d, "error")
              ELSE Handled("media", [d EXCEPT !.ids = @ + 1], "ok")
         ELSE IF d.action = "waiting_for_album_media"
         THEN IF d.ids >= AlbumCap THEN Handled("media", d, "error")
              ELSE Handled("media", [d EXCEPT !.ids = @ + 1], "ok")
         ELSE IF d.upload_type = "story"
         THEN [Handled("media", [EmptyDoc EXCEPT !.action = "finalizing_upload",
                                                 !.info = TRUE, !.fi = file_info], "none")
                  EXCEPT !.pc = "download"]
         ELSE Handled("media", [EmptyDoc EXCEPT !.action = "waiting_for_caption",
                                                !.info = TRUE, !.fi = file_info], "ok"))

\* handle_done_command
handle_done_command ==
    LET d == flow.doc IN
    /\ flow.pc = "idle"
    /\ FlowStep(
         IF d.action \notin {"waiting_for_album_media", "waiting_for_bulk_media"}
         THEN Handled("done", d, "error")
         ELSE IF d.ids <= 0 THEN Handled("done", d, "error")
         ELSE IF d.upload_type = "bulk_reel"
         THEN Handled("done", [d EXCEPT !.action = "waiting_for_bulk_captions"], "ok")
         ELSE Handled("done",
                      [EmptyDoc EXCEPT !.action = "waiting_for_caption", !.info = TRUE,
                                       !.fi = [NoInfo EXCEPT !.upload_type = "album",
                                                             !.ids = d.ids]], "ok"))

\* handle_skip_command
handle_skip_command ==
    LET d == flow.doc IN
    /\ flow.pc = "idle"
    /\ FlowStep(
         IF d.action \notin {"waiting_for_caption", "waiting_for_bulk_captions"}
         THEN Handled("skip", d, "none")
         ELSE IF d.action = "waiting_for_caption"
         THEN [Handled("skip", [EmptyDoc EXCEPT !.action = "waiting_for_upload_options",
                                   !.info = TRUE,
                                   !.fi = [d.fi EXCEPT !.caption = NoneCaption]], "none")
                  EXCEPT !.pc = "download"]
         ELSE Handled("skip",
                      [EmptyDoc EXCEPT !.action = "waiting_for_schedule_options",
                                       !.ids = d.ids, !.hasbulk = TRUE,
                                       !.bulk = [i \in 1..d.ids |-> NoneCaption]], "ok"))

\* _deferred_download_and_show_options, run by the handler that left
\* pc = "download"; file_info is that handler's dictionary.  A dictionary
\* without "file_id" raises KeyError inside the try, and every exception of
\* the try clears the state.
deferred_download_and_show_options ==
    LET file_info == flow.doc.fi IN
    /\ flow.pc = "download"
    /\ \E fetched \in BOOLEAN :
         FlowStep(
           IF file_info.file_id /\ fetched
           THEN [flow EXCEPT !.pc = "idle", !.reply = "ok",
                    !.doc = [EmptyDoc EXCEPT !.action = "waiting_for_upload_options",
                                             !.info = TRUE,
                                             !.fi = [file_info EXCEPT !.path = TRUE]]]
           ELSE [flow EXCEPT !.pc = "idle", !.reply = "error", !.doc = EmptyDoc,
                             !.raised = ~file_info.file_id])

\* handle_text_input, the branches of the upload flow; premium is
\* is_premium_for_platform at the time of the message.
\* (handle_text_input_limit_for_all: the length test ignores the plan.)
handle_text_input_limit_for_all(text) ==
    LET d == flow.doc IN
    /\ flow.pc = "idle"
    /\ \E premium \in BOOLEAN :
         FlowStep(
           LET h == [Handled("text", d, "none") EXCEPT !.premium = premium, !.text = text] IN
           IF d.action = "none" THEN [h EXCEPT !.reply = "error"]
           ELSE IF d.action = "waiting_for_caption"
           THEN IF len(text) > CaptionLimit THEN [h EXCEPT !.reply = "error"]
                ELSE [h EXCEPT !.doc = [d EXCEPT !.fi.caption = text], !.pc = "download"]
           ELSE IF d.action = "waiting_for_bulk_single_caption"
           THEN [h EXCEPT !.reply = "ok",
                    !.doc = [d EXCEPT !.action = "waiting_for_schedule_options",
                                      !.hasbulk = TRUE,
                                      !.bulk = [i \in 1..d.ids |-> text]]]
           ELSE IF d.action = "waiting_for_bulk_individual_captions"
           THEN IF Len(split(text)) # d.ids THEN [h EXCEPT !.reply = "error"]
                ELSE [h EXCEPT !.reply = "ok",
                         !.doc = [d EXCEPT !.action = "waiting_for_schedule_options",
                                           !.hasbulk = TRUE, !.bulk = split(text)]]
           ELSE h)
handle_text_input(text) ==
    LET d == flow.doc IN
    /\ flow.pc = "idle"
    /\ \E premium \in BOOLEAN :
         FlowStep(
           LET h == [Handled("text", d, "none") EXCEPT !.premium = premium, !.text = text] IN
           IF d.action = "none" THEN [h EXCEPT !.reply = "error"]
           ELSE IF d.action = "waiting_for_caption"
           THEN IF ~premium /\ len(text) > CaptionLimit THEN [h EXCEPT !.reply = "error"]
                ELSE [h EXCEPT !.doc = [d EXCEPT !.fi.caption = text], !.pc = "download"]
           ELSE IF d.action = "waiting_for_bulk_single_caption"
           THEN [h EXCEPT !.reply = "ok",
                    !.doc = [d EXCEPT !.action = "waiting_for_schedule_options",
                                      !.hasbulk = TRUE,
                                      !.bulk = [i \in 1..d.ids |-> text]]]
           ELSE IF d.action = "waiting_for_bulk_individual_captions"
           THEN IF Len(split(text)) # d.ids THEN [h EXCEPT !.reply = "error"]
                ELSE [h EXCEPT !.reply = "ok",
                         !.doc = [d EXCEPT !.action = "waiting_for_schedule_options",
                                           !.hasbulk = TRUE, !.bulk = split(text)]]
           ELSE h)

\* bulk_add_single_caption_cb and bulk_add_individual_captions_cb
bulk_add_caption_cb(next) ==
    LET d == flow.doc IN
    /\ flow.pc = "idle"
    /\ FlowStep(
         IF d.action # "waiting_for_bulk_captions"
         THEN Handled("bulk_add_caption", d, "error")
         ELSE Handled("bulk_add_caption", [d EXCEPT !.action = next], "ok"))
bulk_add_single_caption_cb == bulk_add_caption_cb("waiting_for_bulk_single_caption")
bulk_add_individual_captions_cb ==
    bulk_add_caption_cb("waiting_for_bulk_individual_captions")

\* bulk_schedule_posts_cb
bulk_schedule_posts_cb ==
    LET d == flow.doc IN
    /\ flow.pc = "idle"
    /\ FlowStep(
         IF d.action # "waiting_for_schedule_options"
         THEN Handled("bulk_schedule_posts", d, "error")
         ELSE Handled("bulk_schedule_posts",
                      [d EXCEPT !.action = "waiting_for_schedule_preset"], "ok"))

\* schedule_preset_cb with an interval preset, and save_bulk_schedules: the
\* handler reads media_file_ids and bulk_captions with defaults and never
\* reads the action; save_bulk_schedules indexes platform and upload_type.
\* The captions are read before anything is inserted, and the first
\* insertion already needs the platform, so a raise leaves no entry.
schedule_preset_cb_save ==
    LET d == flow.doc
        media_count == IF d.ids < 0 THEN 0 ELSE d.ids
        bulk_captions == IF d.hasbulk THEN d.bulk ELSE <<NoneCaption>> IN
    /\ flow.pc = "idle"
    /\ FlowStep(
         IF media_count = 0 THEN Handled("schedule_preset", d, "error")
         ELSE IF Len(bulk_captions) < media_count \/ ~d.typed
         THEN [Handled("schedule_preset", d, "none") EXCEPT !.raised = TRUE]
         ELSE [Handled("schedule_preset", EmptyDoc, "ok")
                  EXCEPT !.saved = [i \in 1..media_count |-> bulk_captions[i]]])

\* the user's default caption, and process_and_upload's choice between it
\* and the job's caption; the user has no hashtags, so nothing is appended.
DefaultCaption == "dflt"
final_caption(custom_caption, default_caption) ==
    IF custom_caption # NoneCaption THEN custom_caption ELSE default_caption

\* upload_now_cb up to start_upload_task, with the caption the run will use.
upload_now_cb ==
    LET d == flow.doc IN
    /\ flow.pc = "idle"
    /\ FlowStep(
         IF ~d.info THEN Handled("upload_now", d, "error")
         ELSE [Handled("upload_now", EmptyDoc, "ok")
                  EXCEPT !.run = [started |-> TRUE, from |-> d.action,
                                  custom |-> d.fi.caption,
                                  final |-> final_caption(d.fi.caption, DefaultCaption)]])

\* bulk_scheduler_task handing entry i of the last saved batch to
\* process_and_upload: custom_caption is the entry's caption.
scheduled_process_and_upload(i) ==
    /\ flow.pc = "idle"
    /\ i \in 1..Len(flow.saved)
    /\ FlowStep([flow EXCEPT !.last = "scheduled_run", !.reply = "none", !.raised = FALSE,
                    !.run = [started |-> TRUE, from |-> "schedule",
                             custom |-> flow.saved[i],
                             final |-> final_caption(flow.saved[i], DefaultCaption)]])

\* schedule_preset_cb, which is not wrapped by with_user_lock, one call per
\* press: doc is the state_data the call has read, key its preset_key.
NoPress == [pc |-> "none", key |-> "none", doc |-> EmptyDoc, reply |-> "none"]
PresetKeys == {"1_hour", "once_daily", "weekly"}
KnownKeys == {"1_hour", "3_hours", "6_hours", "12_hours", "once_daily", "morning",
              "evening"}
Presses == 1..NumPresses

\* _get_user_state and the test of media_count.
schedule_preset_cb_read(p, key) ==
    /\ flow.presses[p].pc = "none"
    /\ FlowStep([flow EXCEPT !.presses[p] =
           IF flow.doc.ids <= 0
           THEN [NoPress EXCEPT !.pc = "done", !.key = key, !.reply = "error"]
           ELSE [NoPress EXCEPT !.pc = "save", !.key = key, !.doc = flow.doc]])

\* The list scheduled_posts of the branch of preset_key, none of which is
\* taken for a key outside the chain, and save_bulk_schedules: one
\* insert_one per post, with media_file_ids[i] and status "pending".
scheduled_posts(key, d) ==
    IF key \in KnownKeys
    THEN [i \in 1..d.ids |-> [ref |-> i, status |-> "pending"]]
    ELSE <<>>

schedule_preset_cb_insert(p) ==
    LET c == flow.presses[p] IN
    /\ c.pc = "save"
    /\ FlowStep([flow EXCEPT !.presses[p].pc = "confirm",
                             !.entries = @ \o scheduled_posts(c.key, c.doc)])

\* "Scheduled N Posts!" and _clear_user_state.
schedule_preset_cb_clear(p) ==
    /\ flow.presses[p].pc = "confirm"
    /\ FlowStep([flow EXCEPT !.presses[p].pc = "done", !.presses[p].reply = "ok",
                             !.doc = EmptyDoc])

BatchSteps ==
    \/ \E p \in Presses : \E key \in PresetKeys : schedule_preset_cb_read(p, key)
    \/ \E p \in Presses : schedule_preset_cb_insert(p)
    \/ \E p \in Presses : schedule_preset_cb_clear(p)

Media == {"video", "photo", "other"}
FlowSteps ==
    \/ \E k \in Kinds : initiate_instagram_upload_type(k)
    \/ initiate_bulk_upload_menu
    \/ \E m \in Media : \E big \in BOOLEAN : handle_media_upload(m, big)
    \/ handle_done_command
    \/ handle_skip_command
    \/ \E text \in Texts : handle_text_input(text)
    \/ deferred_download_and_show_options
    \/ bulk_add_single_caption_cb
    \/ bulk_add_individual_captions_cb
    \/ bulk_schedule_posts_cb
    \/ schedule_preset_cb_save
    \/ upload_now_cb
    \/ \E i \in 1..MaxBulkLimit : scheduled_process_and_upload(i)

\* ------------------------------------------------------------ specification
\* What start_bot sets up; db.user_states is empty and the entries of
\* db.schedules are pending.
InitEngine ==
    /\ locked = [u \in Users |-> NoLocked]
    /\ lockQueue = [u \in Users |-> <<>>]
    /\ handlers = [h \in Slots |-> NoHandler]
    /\ tasks = [t \in Tids |-> NoTask]
    /\ registry = [u \in Users |-> NoNames]
    /\ sem = [value |-> MaxConcurrentUploads, waiters |-> <<>>]
    /\ files = {}
    /\ schedules = [e \in Entries |-> "pending"]
    /\ daemon = DaemonIdle
    /\ clock = 0
    /\ event = NoEvent
    /\ arrivals = 0
    /\ global_settings = DefaultSettings
    /\ retired = <<>>
    /\ admin = AdminIdle
    /\ shutdown = Running

InitProcess ==
    /\ InitEngine
    /\ flow = FlowIdle

Init ==
    /\ InitProcess
    /\ userState = [u \in Users |-> Idle]
    /\ sched = NoSched

\* The bot was restarted while the first user was at the upload options: the
\* state document saved by handle_skip_command is still in db.user_states.
AtOptions == [action |-> "waiting_for_upload_options", info |-> TRUE,
              caption |-> "default", path |-> 0, tags |-> FALSE]

InitGate ==
    /\ InitProcess
    /\ userState = [u \in Users |-> IF u = 1 THEN AtOptions ELSE Idle]
    /\ sched = NoSched

\* A user with media_file_ids in the state presses a window preset.
InitSched ==
    /\ InitProcess
    /\ userState = [u \in Users |-> IF u = SchedUser THEN AtScheduleOptions ELSE Idle]
    /\ \E n \in 0..MaxN : \E a \in 0..(DaySlots - 1) : \E b \in 0..(DaySlots - 1) :
       \E now \in DayLen..(2 * DayLen - 1) :
           sched = [n |-> n, start |-> DayLen + a * SlotTicks,
                    end |-> DayLen + b * SlotTicks, now |-> now,
                    out |-> <<>>, pc |-> "input"]

\* A user with media_file_ids in the state presses an interval preset or the
\* once-daily preset.
InitPolicy ==
    /\ InitProcess
    /\ userState = [u \in Users |-> IF u = SchedUser THEN AtScheduleOptions ELSE Idle]
    /\ \E n \in 0..MaxN : \E now \in DayLen..(2 * DayLen - 1) :
       \E key \in IntervalPresets \cup {"once_daily"} :
           sched = [n |-> n, start |-> 0, end |-> 0, now |-> now,
                    out |-> <<>>, pc |-> "input", preset |-> key]

RunCommon ==
    \/ \E t \in Tids : RunBegin(t)
    \/ \E t \in Tids : RunResume(t)
    \/ \E t \in Tids : RunDownload(t)
    \/ \E t \in Tids : RunTransform(t)
    \/ \E t \in Tids : RunPublish(t)
    \/ \E t \in Tids : RunPersist(t)
    \/ \E t \in Tids : RunNotify(t)
    \/ \E t \in Tids : RunFault(t)
    \/ \E t \in Tids : RunExcept(t)

CancelSteps ==
    \/ \E h \in Slots : cancel_upload_cb_read(h)
    \/ \E h \in Slots : cancel_upload_cb_clear(h)
    \/ \E h \in Slots : cancel_upload_cb_gather(h)

UploadNowSteps ==
    \/ \E h \in Slots : upload_now_cb_read(h)
    \/ \E h \in Slots : upload_now_cb_dispatch(h)

DaemonSteps ==
    \/ \E t \in Tids : RunSend(t)
    \/ \E t \in Tids : RunComplete(t)
    \/ DaemonPoll
    \/ DaemonClaim
    \/ DaemonFault
    \/ Tick

\* The interactive upload flow of the users.
Next ==
    \/ \E u \in Users : \E k \in LockedKinds : LockedArrive(u, k)
    \/ \E u \in Users : \E k \in UnlockedKinds : UnlockedArrive(u, k)
    \/ \E u \in Users : initiate_instagram_upload(u)
    \/ \E u \in Users : handle_media_upload_read(u)
    \/ \E u \in Users : handle_media_upload_act(u)
    \/ \E u \in Users : handle_skip_command_read(u)
    \/ \E u \in Users : handle_skip_command_save(u)
    \/ \E u \in Users : deferred_download(u)
    \/ \E u \in Users : deferred_show(u)
    \/ UploadNowSteps
    \/ CancelSteps
    \/ \E t \in Tids : timeout_task_read(t)
    \/ \E t \in Tids : timeout_task_clear(t)
    \/ \E t \in Tids : timeout_task_notify(t)
    \/ \E t \in Tids : RunClear(t)
    \/ RunCommon

Spec == Init /\ [][Next]_vars

TagSteps ==
    \/ \E u \in Users : tag_users_cb(u)
    \/ \E u \in Users : handle_text_input_usertags(u)

\* The interactive upload flow with the user tags of the upload options.
NextTags == Next \/ TagSteps

SpecTags == Init /\ [][NextTags]_vars
SpecFlow == Init /\ [][FlowSteps]_vars

BackSteps ==
    \/ \E u \in Users : back_to_cb_arrive(u)
    \/ \E h \in Slots : back_to_cb_cancel(h)
    \/ \E h \in Slots : back_to_cb_clear(h)

\* The interactive upload flow with the "back" buttons.
NextBack == Next \/ BackSteps

SpecBack == Init /\ [][NextBack]_vars

\* Interactive and scheduled runs at the upload semaphore.
NextGate ==
    \/ \E u \in Users : \E k \in UnlockedKinds : UnlockedArrive(u, k)
    \/ UploadNowSteps
    \/ CancelSteps
    \/ \E t \in Tids : RunClear(t)
    \/ RunCommon
    \/ DaemonSteps

SpecGate == InitGate /\ [][NextGate]_vars

\* The scheduler daemon, its runs, and the owners' cancel and delete buttons.
NextDaemon ==
    \/ \E u \in Users : UnlockedArrive(u, "cancel")
    \/ CancelSteps
    \/ \E u \in Users : confirm_delete_all_schedules_cb(u)
    \/ RunCommon
    \/ DaemonSteps

SpecDaemon == Init /\ [][NextDaemon]_vars

SpecSched == InitSched /\ [][schedule_preset_cb]_vars

SpecPolicy == InitPolicy /\ [][schedule_preset_cb_policy]_vars

\* A bulk job of n videos with a caption each, at the preset step, as
\* handle_text_input and bulk_schedule_posts_cb leave it.
BatchDoc(n) ==
    [EmptyDoc EXCEPT !.action = "waiting_for_schedule_preset", !.typed = TRUE,
                     !.upload_type = "bulk_reel", !.ids = n, !.limit = MaxBulkLimit,
                     !.hasbulk = TRUE, !.bulk = [i \in 1..n |-> "c280"]]
InitBatch ==
    /\ InitEngine
    /\ userState = [u \in Users |-> Idle]
    /\ sched = NoSched
    /\ \E n \in 1..MaxBulkLimit :
          flow = [FlowIdle EXCEPT !.doc = BatchDoc(n),
                                  !.presses = [p \in Presses |-> NoPress]]

SpecBatch == InitBatch /\ [][BatchSteps]_vars

\* Every user is at the upload options and presses "upload now" or cancel.
InitSerial ==
    /\ InitProcess
    /\ userState = [u \in Users |-> AtOptions]
    /\ sched = NoSched

\* The steps of the pipeline runs.
RunSteps ==
    \/ \E t \in Tids : RunClear(t)
    \/ RunCommon

\* One press of "upload now" per user, and one more button.
NextSerial ==
    \/ \E u \in Users : \E k \in UnlockedKinds :
          arrivals < NumUsers + 1 /\ UnlockedArrive(u, k)
    \/ UploadNowSteps
    \/ CancelSteps
    \/ RunSteps

\* The event loop runs every task that is ready, and every call a run
\* awaits (Telegram, Instagram, MongoDB, ffmpeg) returns or raises.
SpecSerial == InitSerial /\ [][NextSerial]_vars /\ WF_vars(RunSteps)

\* The interactive flow of a user whose earlier job is at the upload options.
SpecTimeout == InitGate /\ [][Next]_vars

\* Shutdown while uploads are dispatched and the daemon claims entries; the
\* process ends when start_bot returns.
NextShutdown ==
    /\ shutdown.pc # "stopped"
    /\ \/ \E u \in Users : UnlockedArrive(u, "upload_now")
       \/ UploadNowSteps
       \/ RunSteps
       \/ DaemonSteps
       \/ shutdown_begin
       \/ shutdown_return

SpecShutdown == InitGate /\ [][NextShutdown]_vars

\* Interactive and scheduled runs while every user is at the upload options.
NextOwners ==
    \/ \E u \in Users : \E k \in UnlockedKinds :
           arrivals < NumUsers + 1 /\ UnlockedArrive(u, k)
    \/ UploadNowSteps
    \/ CancelSteps
    \/ RunSteps
    \/ DaemonSteps

SpecOwners == InitSerial /\ [][NextOwners]_vars

\* Uploads of every user while the admin changes max_concurrent_uploads.
NextReload ==
    \/ \E u \in Users : UnlockedArrive(u, "upload_now")
    \/ UploadNowSteps
    \/ RunSteps
    \/ max_uploads_save
    \/ max_uploads_rebind

SpecReload == InitSerial /\ [][NextReload]_vars

\* The scheduler daemon and its runs while the admin pauses and resumes.
NextPause ==
    \/ toggle_schedules_paused_cb
    \/ RunCommon
    \/ DaemonSteps

SpecPause == Init /\ [][NextPause]_vars

\* The interactive upload flow of the owners while the daemon dispatches
\* their entries.
NextMixed ==
    \/ \E u \in Users : \E k \in LockedKinds : arrivals < 3 /\ LockedArrive(u, k)
    \/ \E u \in Users : initiate_instagram_upload(u)
    \/ \E u \in Users : handle_media_upload_read(u)
    \/ \E u \in Users : handle_media_upload_act(u)
    \/ \E u \in Users : handle_skip_command_read(u)
    \/ \E u \in Users : handle_skip_command_save(u)
    \/ \E u \in Users : deferred_download(u)
    \/ \E u \in Users : deferred_show(u)
    \/ \E t \in Tids : timeout_task_read(t)
    \/ \E t \in Tids : timeout_task_clear(t)
    \/ \E t \in Tids : timeout_task_notify(t)
    \/ RunCommon
    \/ DaemonSteps

SpecMixed == Init /\ [][NextMixed]_vars

\* The faults of a pipeline run by their place: missing or invalid
\* credentials, and the database at the final state clear.
FaultSteps ==
    \/ \E t \in Tids : RunLoginRequired(t)
    \/ \E t \in Tids : RunClearFault(t)

\* Interactive and scheduled runs with these faults.
NextPipeline ==
    \/ \E u \in Users : arrivals < NumUsers /\ UnlockedArrive(u, "upload_now")
    \/ UploadNowSteps
    \/ RunSteps
    \/ DaemonSteps
    \/ FaultSteps

SpecPipeline == InitSerial /\ [][NextPipeline]_vars

\* ----------------------------------------------------------------- claims
RunsInSection == {t \in Tids : tasks[t].pc \in InSection}
PermitHolders == {t \in Tids : tasks[t].pc \in HoldsPermit}

\* C1: with max_concurrent_uploads fixed, at no time are more than
\* max_concurrent_uploads pipeline runs, interactive or scheduled, inside
\* the section guarded by the upload semaphore.
C1_BoundedPermits == Cardinality(RunsInSection) <= MaxConcurrentUploads

\* The section is full, a run is queued behind it, and both kinds of run
\* take part.
C1_Witness ==
    /\ Cardinality(RunsInSection) = MaxConcurrentUploads
    /\ sem.waiters # <<>>
    /\ \E t \in Tids : tasks[t].name = "upload" /\ tasks[t].pc \in InSection \cup {"waiting"}
    /\ \E t \in Tids : tasks[t].name = "scheduled_upload"
                       /\ tasks[t].pc \in InSection \cup {"waiting"}

LockHeld(u) == locked[u].kind # "none"

\* The step is the arrival of an event of user u at a handler wrapped by
\* with_user_lock.
LockedArrivalOf(u) ==
    /\ arrivals' = arrivals + 1
    /\ handlers' = handlers
    /\ \/ event'.user = u
       \/ locked'[u] # locked[u]
       \/ lockQueue'[u] # lockQueue[u]

\* C2: an event that arrives at a handler guarded by the per-user lock while
\* the user's lock is held is rejected at once: the busy reply is sent, the
\* handler does not wait for the lock, its body does not run, and the user's
\* state (and everything else) is left as it was.
C2_RejectedWhenHeld ==
    [][\A u \in Users :
          (LockHeld(u) /\ LockedArrivalOf(u)) =>
              /\ event' = BusyReply(u)
              /\ UNCHANGED <<userState, locked, lockQueue, handlers, tasks,
                             registry, sem, files, schedules>>]_vars

\* A busy reply was sent while the holder of the lock was in the middle of
\* its body.
C2_Witness ==
    /\ event.kind = "busy"
    /\ locked[event.user].pc \in {"act", "save", "download", "show"}

\* C3 (as stated): no two operations of one user are in progress at the
\* same time.
OperationsOf(u) ==
    (IF LockHeld(u) THEN 1 ELSE 0)
    + Cardinality({h \in Slots : handlers[h].user = u})
    + Cardinality({t \in Tids : IsRun(tasks[t]) /\ tasks[t].user = u /\ tasks[t].pc # "done"})

C3_TotallyOrdered == \A u \in Users : OperationsOf(u) <= 1

\* A handler that holds the user's lock is in the middle of its body while
\* an upload-now or cancel callback of the same user, which has read the
\* user's state, is in progress too.
C3_BugState ==
    \E u \in Users : \E h \in Slots :
        /\ locked[u].pc \in {"act", "save", "download", "show"}
        /\ handlers[h].user = u
        /\ handlers[h].pc \in {"dispatch", "clear", "gather"}

\* C4 (as stated): of the tasks created under one (user_id, task_name) at
\* most one is not done.
TasksOfKey(u, n) ==
    {t \in Tids : tasks[t].pc # "done" /\ tasks[t].user = u /\ TaskKeyOf(tasks[t]) = n}

C4_OneLivePerKey == \A u \in Users : \A n \in TaskNames : Cardinality(TasksOfKey(u, n)) <= 1

\* The registered "upload" task of a user has started to run while the task
\* it replaced is still executing its except clause or finally block.
C4_BugState ==
    \E u \in Users : \E old \in Tids : \E new \in Tids :
        /\ old # new
        /\ registry[u][<<"upload", 0>>] = new
        /\ tasks[new].name = "upload" /\ tasks[new].user = u
        /\ tasks[new].pc \notin {"new", "done"}
        /\ tasks[old].name = "upload" /\ tasks[old].user = u
        /\ tasks[old].pc \in {"except", "clearing"}

\* C5: every run that acquired a permit gives it back exactly once on every
\* exit path: the permits available plus the permits held by runs that are
\* past the acquisition always add up to max_concurrent_uploads, so that
\* once a run has ended the count is what it was before the run acquired.
C5_PermitsConserved ==
    /\ sem.value >= 0
    /\ sem.value + Cardinality(PermitHolders) = MaxConcurrentUploads

\* A run that held a permit has just ended by cancellation, or by a fault,
\* and all permits are available again.
C5_Witness ==
    /\ event.kind = "run_end"
    /\ event.oc \in {"cancelled", "fault"}
    /\ PermitHolders = {}
    /\ sem.value = MaxConcurrentUploads

\* C6 (as stated): when a pipeline run ends, none of the temporary files of
\* its job is left on disk.
C6_NoResidue == event.kind = "run_end" => event.left = {}

\* An interactive run has ended and the file fetched before the dispatch
\* (downloaded_path) is still on disk.
C6_BugState ==
    /\ event.kind = "run_end"
    /\ event.entry = 0
    /\ event.oc \in {"ok", "fault", "cancelled"}
    /\ event.left # {}

\* C7 (as stated): a run is spawned for an entry only if the update found
\* the entry pending.
C7_ClaimOnlyPending ==
    \A t \in Tids : tasks[t].name = "scheduled_upload" => tasks[t].claimed

\* The daemon has spawned a run for an entry that was no longer pending when
\* its update_one was applied.
C7_BugState ==
    \E t \in Tids : tasks[t].name = "scheduled_upload" /\ ~tasks[t].claimed

Statuses == {"pending", "processing", "completed", "failed"}
Forward == {<<"pending", "processing">>, <<"processing", "completed">>,
            <<"processing", "failed">>}

\* C8: the status of a schedule entry never moves backward: whenever the
\* status of an entry changes, it goes from pending to processing or from
\* processing to completed or failed.
C8_StatusForward ==
    [][\A e \in Entries :
          (schedules'[e] # schedules[e] /\ schedules'[e] \in Statuses) =>
              <<schedules[e], schedules'[e]>> \in Forward]_vars

\* One entry has been completed, another has failed, and the daemon has
\* taken a later poll.
C8_Witness ==
    /\ \E e \in Entries : schedules[e] = "completed"
    /\ \E e \in Entries : schedules[e] = "failed"

\* C9 (as stated): when the run of a claimed entry has ended, the entry is
\* completed or failed.
C9_TerminalAfterRun ==
    (event.kind = "run_end" /\ event.entry # 0) =>
        schedules[event.entry] \in {"completed", "failed", "deleted"}

\* The run of an entry has ended by a fault or by cancellation inside the
\* pipeline and the entry is still processing.
C9_BugState ==
    /\ event.kind = "run_end"
    /\ event.entry # 0
    /\ event.oc \in {"fault", "cancelled"}
    /\ schedules[event.entry] = "processing"

\* Local time of a stored run_at, and its position in its calendar day.
LocalOf(t) == t + IstOffset
InWindow(t) ==
    /\ sched.start % DayLen <= LocalOf(t) % DayLen
    /\ LocalOf(t) % DayLen <= sched.end % DayLen

\* C10: for a valid window, any item count N >= 1 and any current time, the
\* window branch yields exactly N timestamps, in non-decreasing order, each
\* inside [start, end] of the window on some calendar day.
C10_WindowSchedule ==
    sched.pc = "done" =>
        /\ Len(sched.out) = sched.n
        /\ \A i \in 1..(Len(sched.out) - 1) : sched.out[i] <= sched.out[i + 1]
        /\ \A i \in 1..Len(sched.out) : InWindow(sched.out[i])

\* Several items were placed from a current time inside the window and the
\* last one landed on a later day.
C10_Witness ==
    /\ sched.pc = "done"
    /\ sched.n >= 2
    /\ sched.start < sched.now /\ sched.now < sched.end
    /\ LocalOf(sched.out[sched.n]) \div DayLen > LocalOf(sched.out[1]) \div DayLen

\* The stored run_at values as local (IST) times.
LocalOut == [i \in 1..Len(sched.out) |-> LocalOf(sched.out[i])]

\* The scenario of a window of three hours, three items, and a current time
\* one hour after the window start (a slot is an hour).
ThreeHourScenario ==
    /\ sched.n = 3
    /\ sched.end = sched.start + 3 * SlotTicks
    /\ sched.now = sched.start + SlotTicks

\* C11: for the window start=06:00, end=09:00 with N=3 items and current
\* local time 07:00, the computed dispatch times are exactly 07:00, 08:00
\* and 09:00 of the same day.
C11_ScenarioTimes ==
    (sched.pc = "done" /\ ThreeHourScenario) =>
        LocalOut = <<sched.now, sched.now + SlotTicks, sched.end>>

\* The scenario has been computed and its last item is at the window end of
\* the current day.
C11_Witness ==
    /\ sched.pc = "done"
    /\ ThreeHourScenario
    /\ Len(sched.out) = 3
    /\ LocalOf(sched.out[3]) = sched.end

\* Items i and i+1 were placed on the same calendar day.
SameDay(i) == LocalOut[i] \div DayLen = LocalOut[i + 1] \div DayLen

\* d is span / n rounded to a whole tick.
NearestTick(d, span, n) ==
    LET x == n * d - span IN 2 * (IF x < 0 THEN 0 - x ELSE x) <= n

NowInsideWindow == sched.start < sched.now /\ sched.now < sched.end

\* C19 (as stated): when the current time is after the window start, the
\* interval between consecutive timestamps is (end - max(start, now)) / N.
C19_IntervalFromAdvancedStart ==
    (sched.pc = "done" /\ NowInsideWindow) =>
        \A i \in 1..(sched.n - 1) :
            SameDay(i) => NearestTick(sched.out[i + 1] - sched.out[i],
                                      sched.end - sched.now, sched.n)

\* C19 (amended): when the current time is after the window start, only the
\* first timestamp is advanced to the current time; the interval between
\* consecutive timestamps of one day is (end - configured start) / N,
\* whatever the current time, and an item that would fall after today's
\* window end is placed at the window start of a later day.
C19_IntervalFromConfiguredStart ==
    (sched.pc = "done" /\ sched.now > sched.start) =>
        /\ sched.now <= sched.end => LocalOut[1] = sched.now
        /\ \A i \in 1..(sched.n - 1) :
              IF SameDay(i)
              THEN NearestTick(sched.out[i + 1] - sched.out[i],
                               sched.end - sched.start, sched.n)
              ELSE /\ LocalOut[i + 1] \div DayLen > LocalOut[i] \div DayLen
                   /\ LocalOut[i + 1] % DayLen = sched.start % DayLen

\* The current time is inside the window, two items were placed on the
\* same day, and their distance is not (end - now) / N.
C19_Witness ==
    /\ sched.pc = "done"
    /\ NowInsideWindow
    /\ sched.n >= 2
    /\ SameDay(1)
    /\ ~NearestTick(sched.out[2] - sched.out[1], sched.end - sched.now, sched.n)

Paused == global_settings.schedules_paused

\* The step claims entry e: its status goes from pending to processing.
ClaimOf(e) == schedules[e] = "pending" /\ schedules'[e] = "processing"

\* The step spawns a scheduled pipeline run.
SpawnsRun ==
    \E t \in Tids : tasks'[t].name = "scheduled_upload" /\ tasks'[t].pc = "new"
                    /\ tasks[t] # tasks'[t]

C13_TimeoutCleansUp ==
    (event.kind = "timeout" /\ event.quiet) =>
        /\ event.oc = "notified"
        /\ event.left = {}
        /\ userState[event.user] = Idle

\* The timeout task of a job that saw no further message or button has
\* ended without a notice and the fetched file is still on disk: an earlier
\* run of the user had cleared the state in its finally block.
C13_BugState ==
    /\ event.kind = "timeout"
    /\ event.quiet
    /\ event.oc = "empty"
    /\ event.left # {}

\* The step hands a permit to the waiting run t.
Admitted(t) == tasks[t].pc = "waiting" /\ tasks'[t].pc \in HoldsPermit

\* The step takes run t out of the guarded section for good.
Released(t) == tasks[t].pc \in HoldsPermit /\ tasks'[t].pc \notin HoldsPermit

\* C14: when more runs are dispatched than max_concurrent_uploads allows
\* (two users with max_concurrent_uploads = 1), a run that waits for a
\* permit takes no pipeline step until a run that holds one has released it:
\* it is admitted only in the step in which a holder leaves the section, and
\* the holders never outnumber the permits. Once admitted runs end, by
\* success, failure or cancellation, every waiting run eventually acquires
\* the permit and enters the pipeline, unless it is cancelled itself.
C14_SecondWaitsThenProceeds ==
    /\ [](Cardinality(PermitHolders) <= MaxConcurrentUploads)
    /\ [][\A t \in Tids : Admitted(t) =>
              \E t2 \in Tids \ {t} : Released(t2)]_vars
    /\ \A t \in Tids :
          (tasks[t].pc = "waiting") ~> (tasks[t].pc \in {"download", "done"})

\* The run of one user is inside the section and the run of another user
\* waits for the permit.
C14_Witness ==
    \E t1 \in Tids : \E t2 \in Tids :
        /\ tasks[t1].name = "upload" /\ tasks[t1].pc \in TryBody
        /\ tasks[t2].name = "upload" /\ tasks[t2].pc = "waiting"
        /\ tasks[t1].user # tasks[t2].user
        /\ Cardinality(PermitHolders) = MaxConcurrentUploads

\* C15 (as stated): when cancel_and_wait_all has returned, every task
\* created through the tracker, the daemon included, is done.
C15_AllDoneAfterDrain ==
    shutdown.pc = "stopped" =>
        /\ DaemonEnded
        /\ \A t \in Tids : TaskDone(tasks, t)

\* cancel_and_wait_all has waited for the tasks it had cancelled and has
\* returned while a pipeline run created during the wait is still running.
C15_BugState ==
    /\ shutdown.pc = "stopped"
    /\ event.kind = "none"
    /\ \E t \in Tids : IsRun(tasks[t]) /\ tasks[t].pc \in InSection \cup {"new", "waiting"}

\* C16 (as stated): the number of runs that hold a permit, the runs admitted
\* before a reload included, is at most the configured max_concurrent_uploads.
C16_HoldersWithinConfiguredLimit ==
    Cardinality(PermitHolders) <= global_settings.max_concurrent_uploads

\* After a reload one run still holds a permit of the replaced semaphore,
\* another run holds a permit of the new one, and the limit is 1.
C16_BugState ==
    /\ admin.pc = "idle"
    /\ global_settings.max_concurrent_uploads = 1
    /\ \E t1, t2 \in Tids :
         /\ tasks[t1].pc \in TryBody /\ tasks[t1].semref # 0
         /\ tasks[t2].pc \in TryBody /\ tasks[t2].semref = 0

\* A step of the cancel_upload_cb or back_to_cb handler in slot h.
CancellationStep(h) ==
    /\ handlers[h].kind \in {"cancel", "back"}
    /\ handlers'[h] # handlers[h]

\* C17 (as stated): the cancel button and the back buttons remove the file
\* fetched for the job and clear the user's state, and no step of either
\* handler changes a schedule entry.
C17_CancellationPurges ==
    /\ [](event.kind = "back_end" =>
              event.left = {} /\ userState[event.user] = Idle)
    /\ [][\A h \in Slots :
             (handlers[h].kind = "cancel" /\ handlers[h].pc = "read"
                  /\ handlers'[h].pc = "clear")
                 => userState[handlers[h].user].path \notin files']_vars
    /\ [][\A h \in Slots :
             (handlers[h].kind = "cancel" /\ handlers[h].pc = "clear"
                  /\ handlers'[h] # handlers[h])
                 => userState'[handlers[h].user] = Idle]_vars
    /\ [][(\E h \in Slots : CancellationStep(h)) => schedules' = schedules]_vars

\* back_to_cb has ended for a user who was at the upload options: the state
\* is cleared and the file fetched for the job is still on disk.
C17_BugState ==
    /\ event.kind = "back_end"
    /\ event.left # {}
    /\ userState[event.user] = Idle

\* A step in which a scheduled run moves and no handler and no interactive
\* run does, other than a waiting run being handed the permit.
ScheduledRunStep ==
    /\ handlers' = handlers /\ locked' = locked
    /\ \E t \in Tids : tasks[t].name = "scheduled_upload" /\ tasks'[t] # tasks[t]
    /\ \A t \in Tids :
         (tasks[t].name = "upload" /\ tasks'[t] # tasks[t])
             => (tasks[t].pc = "waiting" /\ tasks'[t].pc = "granted")

ScheduledRunKeepsState == [][ScheduledRunStep => userState' = userState]_vars

AnchorLocal == (LocalOf(sched.now) \div DayLen) * DayLen + NineLocal

\* C21: for N >= 1 an interval preset of H hours yields exactly N times
\* now + i*H, i = 0..N-1, and the once-daily preset yields exactly N times
\* whose local value is 09:00 of the current local day plus i days.
C21_PolicyTimes ==
    (sched.pc = "done" /\ sched.n >= 1) =>
        /\ Len(sched.out) = sched.n
        /\ \A i \in 1..sched.n :
             IF sched.preset \in IntervalPresets
             THEN sched.out[i] = sched.now + (i - 1) * PresetHours(sched.preset)
             ELSE LocalOf(sched.out[i]) = AnchorLocal + (i - 1) * DayLen

\* Three posts placed once daily from a moment that is already the next day
\* in local time.
C21_Witness ==
    /\ sched.pc = "done" /\ sched.n = MaxN
    /\ sched.preset = "once_daily"
    /\ LocalOf(sched.now) \div DayLen > sched.now \div DayLen
    /\ sched.out[1] > sched.now

LiveTimeouts(u) ==
    {t \in Tids : tasks[t].name = "timeout" /\ tasks[t].user = u /\ ~TaskDone(tasks, t)}

\* The timeout task t finds a state document and removes the file it names.
TimeoutActs(t) ==
    /\ tasks[t].name = "timeout" /\ tasks[t].pc = "t_sleep"
    /\ tasks'[t].pc = "t_clear"

\* C22 (as stated): a user has at most one live timeout task, and a timeout
\* task never acts on a job whose user tags were asked for or set after the
\* task was armed.
C22_TimeoutCancelledByTransition ==
    /\ [](\A u \in Users : Cardinality(LiveTimeouts(u)) <= 1)
    /\ [][\A t \in Tids : TimeoutActs(t) =>
             /\ userState[tasks[t].user].action # "waiting_for_usertags_insta"
             /\ ~userState[tasks[t].user].tags]_vars

\* The timeout task armed when the options were shown has removed the file
\* and is about to clear the state of a job whose user tags were set since.
C22_BugState ==
    \E t \in Tids :
        /\ tasks[t].name = "timeout" /\ tasks[t].pc = "t_clear"
        /\ userState[tasks[t].user].tags
        /\ userState[tasks[t].user].action = "waiting_for_upload_options"
        /\ tasks[t].path \notin files

\* C23 (as stated): every task of the registry, the scheduler daemon
\* included, ends by returning: a fault or a cancellation of its unit of
\* work is caught by the wrapper and never ends the task.  The uploads and
\* timeouts are created with safe_task_wrapper and end in Finish; the task
\* that is created without it is the daemon.
C23_EveryTaskEndsNormally == daemon.pc # "cancelled"

\* cancel_and_wait_all has cancelled the daemon in the middle of its for
\* loop and has returned: the daemon task has ended with the CancelledError.
C23_BugState ==
    /\ shutdown.pc = "stopped"
    /\ daemon.pc = "cancelled"
    /\ \E e \in Entries : schedules[e] = "processing"
    /\ \E e \in Entries : schedules[e] = "pending"

\* ------------------------------------------------------------ C24
\* The action an event expects of the state it finds.
Expected(name) ==
    CASE name = "media" -> MediaActions
      [] name = "done" -> {"waiting_for_album_media", "waiting_for_bulk_media"}
      [] name = "skip" -> {"waiting_for_caption", "waiting_for_bulk_captions"}
      [] name = "upload_now" -> {"waiting_for_upload_options"}
      [] name = "schedule_preset" -> {"waiting_for_schedule_preset"}
MismatchedEvents == {"media", "done", "skip", "upload_now", "schedule_preset"}

\* C24: a media message, /done, /skip, an upload-now button or a
\* schedule-preset button that finds the state at an action it does not
\* expect changes nothing and shows no error: the state document is the
\* same, nothing is scheduled, no run is started, the handler does not
\* raise and it sends no refusal.
C24_MismatchedEventIsNoOp ==
    [][(/\ flow'.last \in MismatchedEvents
        /\ flow'.pc = "idle"
        /\ flow.doc.action \notin Expected(flow'.last)
        /\ flow'.was = flow.doc.action)
       => /\ flow'.doc = flow.doc
          /\ flow'.saved = <<>>
          /\ ~flow'.run.started
          /\ ~flow'.raised
          /\ flow'.reply # "error"]_vars
\* /done with no flow active has been answered with a refusal.
C24_BugState ==
    /\ flow.last = "done"
    /\ flow.was = "none"
    /\ flow.doc = EmptyDoc
    /\ flow.reply = "error"

\* ------------------------------------------------------------ C25
\* A text message handled in the caption step.
CaptionStep ==
    /\ flow.pc = "idle"
    /\ flow.doc.action = "waiting_for_caption"
    /\ flow'.last = "text"

\* C25: in the caption step a text longer than 280 characters from a user
\* without premium is refused and the state document, stored caption
\* included, stays as it was; any other text is stored as the job's caption
\* and the fetch that leads to the upload options is started.
C25_CaptionCeiling ==
    [][CaptionStep =>
         IF ~flow'.premium /\ len(flow'.text) > CaptionLimit
         THEN /\ flow'.doc = flow.doc
              /\ flow'.reply = "error"
              /\ flow'.pc = "idle"
         ELSE /\ flow'.doc = [flow.doc EXCEPT !.fi.caption = flow'.text]
              /\ flow'.reply # "error"
              /\ flow'.pc = "download"]_vars
\* A caption of 281 characters was refused, and the job waits for a caption.
C25_Witness ==
    /\ flow.last = "text"
    /\ flow.was = "waiting_for_caption"
    /\ ~flow.premium
    /\ flow.text = "c281"
    /\ flow.reply = "error"
    /\ flow.doc.action = "waiting_for_caption"
    /\ flow.doc.fi.caption = NoneCaption

\* ------------------------------------------------------------ C26
\* The handler of /skip has returned.
SkipReturned == flow.last = "skip" /\ flow.pc = "idle"
\* download_media itself failed: the refusal without an exception of the
\* handler's own code.
FetchFailed == flow.reply = "error" /\ ~flow.raised

\* C26: when /skip was handled in waiting_for_caption and the fetch did not
\* fail, the job is at the upload options with the caption None; a /skip
\* that finds any action other than the two caption steps leaves everything
\* as it was.
C26_SkipMovesToOptions ==
    /\ [](SkipReturned /\ flow.was = "waiting_for_caption" /\ ~FetchFailed
            => /\ flow.doc.action = "waiting_for_upload_options"
               /\ flow.doc.fi.caption = NoneCaption)
    /\ [][flow.pc = "idle" /\ flow'.last = "skip"
          /\ flow.doc.action \notin Expected("skip")
            => /\ flow'.doc = flow.doc
               /\ flow'.pc = "idle"
               /\ flow'.reply = "none"]_vars
\* /skip in the caption step of an album: the handler raised on the missing
\* "file_id" and the state is gone.
C26_BugState ==
    /\ SkipReturned
    /\ flow.was = "waiting_for_caption"
    /\ flow.raised
    /\ flow.doc = EmptyDoc

\* ------------------------------------------------------------ C27
\* A bulk job at the preset step whose captions were all skipped.
SkippedBulkAtPreset ==
    /\ flow.pc = "idle"
    /\ flow.doc.action = "waiting_for_schedule_preset"
    /\ flow.doc.hasbulk
    /\ flow.doc.ids >= 1
    /\ \A i \in 1..Len(flow.doc.bulk) : flow.doc.bulk[i] = NoneCaption

C28_MediaRefsBounded ==
    LET d == flow.doc IN
    /\ d.upload_type = "album" => d.ids <= AlbumCap
    /\ d.fi.upload_type = "album" => d.fi.ids <= AlbumCap
    /\ d.upload_type = "bulk_reel" => d.ids <= d.limit
    /\ d.action = "waiting_for_caption" => d.info /\ (d.fi.file_id \/ d.fi.ids >= 1)
    /\ d.action = "waiting_for_bulk_captions" => d.ids >= 1
\* The eleventh file of an album has been refused.
C28_Witness ==
    /\ flow.last = "media"
    /\ flow.doc.action = "waiting_for_album_media"
    /\ flow.doc.ids = AlbumCap
    /\ flow.reply = "error"

\* ------------------------------------------------------------ C29
\* C29: a run started by the upload-now button was started from
\* waiting_for_upload_options, that is, after the media was fetched and the
\* options were shown.
C29_DispatchOnlyFromOptions ==
    flow.last = "upload_now" /\ flow.run.started
      => flow.run.from = "waiting_for_upload_options"
\* The upload-now button has started a run for a job that was still
\* waiting for its caption.
C29_BugState ==
    /\ flow.last = "upload_now"
    /\ flow.run.started
    /\ flow.run.from = "waiting_for_caption"
    /\ flow.doc = EmptyDoc

\* ------------------------------------------------------------ C30
\* The handler of a caption or of /skip, given in waiting_for_caption, has
\* returned.
CaptionStepReturned ==
    /\ flow.last \in {"text", "skip"}
    /\ flow.was = "waiting_for_caption"
    /\ flow.pc = "idle"
\* The caption was refused for its length.
CaptionRefused ==
    /\ flow.last = "text"
    /\ flow.reply = "error"
    /\ flow.doc.action = "waiting_for_caption"

\* C30: a job of any kind that was given an accepted caption or /skip in
\* waiting_for_caption is at the upload options when the handler returns,
\* unless download_media failed.
C30_CaptionStepReachesOptions ==
    CaptionStepReturned /\ ~CaptionRefused /\ ~(FetchFailed /\ flow.doc = EmptyDoc)
      => /\ flow.doc.action = "waiting_for_upload_options"
         /\ flow.doc.fi.path
\* An album was given a caption of 280 characters: the handler raised on
\* the missing "file_id" before any download, and the job is gone.
C30_BugState ==
    /\ CaptionStepReturned
    /\ flow.last = "text"
    /\ flow.text = "c280"
    /\ flow.raised
    /\ flow.doc = EmptyDoc

\* ------------------------------------------------------------ C31
\* C31: in a pipeline run the upload method returns at most once and is not
\* awaited again after it returned; a run that awaits it holds a permit of
\* the semaphore, together with at most max_concurrent_uploads runs; a run
\* stopped by LoginRequired has published nothing, has persisted no success,
\* is in its except clause or its finally block and never goes back into
\* the try body; and the entry of such a scheduled run is not made pending
\* again.
C31_PublishOnceUnderPermit ==
    /\ [](\A t \in Tids :
            /\ tasks[t].pubs <= 1
            /\ tasks[t].pc = "publish" =>
                 /\ tasks[t].pubs = 0
                 /\ t \in PermitHolders
                 /\ \A i \in 1..Len(sem.waiters) : sem.waiters[i] # t
                 /\ Cardinality(PermitHolders) <= MaxConcurrentUploads
            /\ tasks[t].outcome = "auth" =>
                 /\ tasks[t].pubs = 0
                 /\ tasks[t].pc \in {"except", "clearing"})
    /\ [](event.kind = "run_end" /\ event.oc = "auth" /\ event.entry # 0
            => schedules[event.entry] # "pending")
    /\ [][\A t \in Tids : tasks[t].outcome = "auth" =>
              /\ tasks'[t].pc \notin TryBody
              /\ tasks'[t].outcome \in {"auth", "none"}
              /\ tasks[t].entry # 0 => schedules'[tasks[t].entry] # "pending"]_vars
\* A scheduled run has ended on LoginRequired; its entry stays processing
\* and the permit is free again.
C31_Witness ==
    /\ event.kind = "run_end"
    /\ event.oc = "auth"
    /\ event.entry # 0
    /\ schedules[event.entry] = "processing"
    /\ sem.value = MaxConcurrentUploads

\* ------------------------------------------------------------ C32
\* C32: no pipeline run that has entered the guarded section ends with an
\* exception leaving process_and_upload: whatever step raised, the final
\* state clear included, the run returns.
C32_NoFaultEscapes ==
    event.kind = "run_end" => event.oc # "escaped"
\* An interactive run has ended by the exception of its final state clear,
\* raised in the finally block.
C32_BugState ==
    /\ event.kind = "run_end"
    /\ event.entry = 0
    /\ event.oc = "escaped"
    /\ event.at = "clearing"

\* ------------------------------------------------------------ C33
\* C33: a timeout task changes the state of its user only when that state
\* is at the upload options of the job the task was armed for; a state
\* written since by another flow is left as it is.
C33_TimeoutSparesNewerFlow ==
    [][\A t \in Tids :
          (/\ tasks[t].name = "timeout"
           /\ tasks[t].pc = "t_clear"
           /\ tasks'[t].pc = "t_notify"
           /\ userState'[tasks[t].user] # userState[tasks[t].user])
          => /\ userState[tasks[t].user].action = "waiting_for_upload_options"
             /\ userState[tasks[t].user].path = tasks[t].path]_vars
\* The timeout armed for an earlier job has found the state of a new upload
\* flow, which waits for its media, and is deleting it.
C33_BugState ==
    \E t \in Tids :
        /\ tasks[t].name = "timeout"
        /\ tasks[t].pc = "t_clear"
        /\ userState[tasks[t].user].action = "waiting_for_instagram_reel"

\* ------------------------------------------------------------ C34
\* The step creates the scheduled run t.
Spawned(t) ==
    /\ tasks'[t].name = "scheduled_upload"
    /\ tasks'[t].pc = "new"
    /\ tasks[t] # tasks'[t]

\* C34: the daemon creates a run for an entry only in a step in which its
\* update changes that entry from pending to processing; for an entry its
\* owner has deleted in the meantime no run is created.
C34_DispatchOnlyIfClaimed ==
    [][\A t \in Tids : Spawned(t) =>
          /\ schedules[tasks'[t].entry] = "pending"
          /\ schedules'[tasks'[t].entry] = "processing"]_vars
\* A run has been created for an entry that its owner had deleted after the
\* daemon's find and before the daemon's update.
C34_BugState ==
    \E t \in Tids :
        /\ tasks[t].name = "scheduled_upload"
        /\ tasks[t].pc = "new"
        /\ ~tasks[t].claimed
        /\ schedules[tasks[t].entry] = "deleted"

\* ------------------------------------------------------------ C35
\* The step is the return of the final state clear of the interactive run
\* t, and no handler takes part in it.
FinalClearOf(t) ==
    /\ tasks[t].name = "upload"
    /\ tasks[t].pc = "clearing"
    /\ tasks'[t].pc = "done"
    /\ handlers' = handlers
    /\ locked' = locked

\* C35: the final state clear of an interactive run does not erase a state
\* written after the run was dispatched: upload_now_cb has deleted the
\* state of the run's own job before it created the run, so the clear
\* leaves the state of the user as it finds it.
C35_FinalClearSparesNewerFlow ==
    [][\A t \in Tids : FinalClearOf(t) =>
          userState'[tasks[t].user] = userState[tasks[t].user]]_vars
\* An interactive run is in its final state clear while its user has
\* started a new upload, which waits for its media.
C35_BugState ==
    \E t \in Tids :
        /\ tasks[t].name = "upload"
        /\ tasks[t].pc = "clearing"
        /\ userState[tasks[t].user].action = "waiting_for_instagram_reel"

\* ------------------------------------------------------------ C36
\* The step takes the scheduled run s to the upload semaphore.
ScheduledRunEnters(s) ==
    /\ tasks[s].name = "scheduled_upload"
    /\ tasks[s].pc = "sending"
    /\ tasks'[s].pc \in {"download", "waiting"}

\* C36: a scheduled run that starts leaves the sleeping timeout task of its
\* owner as it is, and the registry still names it.
C36_ScheduledRunKeepsTimeout ==
    [][\A s \in Tids : \A t \in Tids :
          (/\ ScheduledRunEnters(s)
           /\ tasks[t].name = "timeout"
           /\ tasks[t].user = tasks[s].user
           /\ tasks[t].pc = "t_sleep")
          => /\ tasks'[t] = tasks[t]
             /\ registry'[tasks[t].user][<<"timeout", 0>>] = t]_vars
\* A user has been shown the upload options, a scheduled run of theirs is
\* at the semaphore, and no timeout task is left for the user.
C36_BugState ==
    \E s \in Tids :
        /\ tasks[s].name = "scheduled_upload"
        /\ tasks[s].pc \in {"download", "waiting"}
        /\ userState[tasks[s].user].action = "waiting_for_upload_options"
        /\ locked[tasks[s].user].kind = "none"
        /\ registry[tasks[s].user][<<"timeout", 0>>] = 0
        /\ \A t \in Tids : tasks[t].name # "timeout"

\* ------------------------------------------------------------ C37
\* One pending entry per media of the batch, in order.
BatchEntries(n) == [i \in 1..n |-> [ref |-> i, status |-> "pending"]]

\* C37: the presses of a schedule preset for one batch of N videos never
\* leave more than N entries; a press that reports success had a key of the
\* chain, and the entries are then exactly the N of the batch.
C37_ExactlyOneBatch ==
    \A p \in Presses :
        LET c == flow.presses[p] IN
        /\ c.pc \in {"save", "confirm"} => Len(flow.entries) <= c.doc.ids
        /\ c.reply = "ok" =>
             /\ c.key \in KnownKeys
             /\ flow.entries = BatchEntries(c.doc.ids)
\* Two presses of a preset for the same batch have both reported success,
\* and every video has two entries.
C37_BugState ==
    /\ \A p \in Presses :
          /\ flow.presses[p].reply = "ok"
          /\ flow.presses[p].key \in KnownKeys
    /\ Len(flow.entries) = 2 * flow.presses[1].doc.ids
    /\ flow.doc = EmptyDoc

\* ------------------------------------------------------------ C38
\* A bulk job is at one of the two scheduling steps.
AtScheduleStep ==
    /\ flow.pc = "idle"
    /\ flow.doc.action \in {"waiting_for_schedule_options",
                            "waiting_for_schedule_preset"}

\* C38: a bulk job that reached the scheduling steps, by one caption for
\* all, by one caption per video or by /skip, still holds its platform and
\* upload type, its N videos and N captions; and the preset button then
\* persists N entries and clears the state.
C38_BulkPathsKeepJob ==
    /\ [](AtScheduleStep
            => /\ flow.doc.typed
               /\ flow.doc.ids >= 1
               /\ flow.doc.hasbulk
               /\ Len(flow.doc.bulk) = flow.doc.ids)
    /\ [][AtScheduleStep /\ flow'.last = "schedule_preset"
            => /\ ~flow'.raised
               /\ Len(flow'.saved) = flow.doc.ids
               /\ flow'.doc = EmptyDoc]_vars
\* /skip at the bulk caption step returned, and the job at the scheduling
\* options has its videos and captions but neither platform nor upload type.
C38_BugState ==
    /\ flow.last = "skip"
    /\ flow.was = "waiting_for_bulk_captions"
    /\ flow.pc = "idle"
    /\ flow.doc.action = "waiting_for_schedule_options"
    /\ flow.doc.ids >= 1
    /\ Len(flow.doc.bulk) = flow.doc.ids
    /\ ~flow.doc.typed

\* ------------------------------------------------------------ C39
\* C39: a run whose upload method returned a result persists the success
\* record, and a scheduled one sets its entry completed: when such a run
\* is in an except clause or in its finally block, the record is written
\* and the entry is completed.
C39_PublishedIsRecorded ==
    \A t \in Tids :
        tasks[t].pubs >= 1 /\ tasks[t].pc \in {"except", "clearing"}
        => /\ tasks[t].outcome = "ok"
           /\ tasks[t].entry # 0 => schedules[tasks[t].entry] = "completed"
\* The upload method of a scheduled run returned, a later step raised
\* before the record was written, and the entry is still processing.
C39_BugState ==
    \E t \in Tids :
        /\ tasks[t].name = "scheduled_upload"
        /\ tasks[t].pubs = 1
        /\ tasks[t].pc = "except"
        /\ tasks[t].outcome = "fault"
        /\ schedules[tasks[t].entry] = "processing"

\* ------------------------------------------------------------ C40
\* C40: the step of cancel_upload_cb that clears the user's state and calls
\* cancel_all_user_tasks leaves every scheduled run of that user as it was.
C40_CancelSparesScheduledRuns ==
    [][\A h \in Slots :
          handlers[h].kind = "cancel" /\ handlers[h].pc = "clear"
             /\ handlers'[h] # handlers[h]
          => \A t \in Tids :
                tasks[t].name = "scheduled_upload" /\ tasks[t].user = handlers[h].user
                => tasks'[t] = tasks[t]]_vars
\* cancel_upload_cb awaits, in gather, a scheduled run of its user that it
\* has cancelled inside the guarded section; the entry is still processing.
C40_BugState ==
    \E h \in Slots : \E t \in handlers[h].wait :
        /\ handlers[h].kind = "cancel"
        /\ handlers[h].pc = "gather"
        /\ tasks[t].name = "scheduled_upload"
        /\ tasks[t].user = handlers[h].user
        /\ tasks[t].pc = "except"
        /\ tasks[t].outcome = "cancelled"
        /\ schedules[tasks[t].entry] = "processing"

====
